---- MODULE Spec2Model ----
(***************************************************************************)
(* A model of the jarvis data-access and phono3py post-processing scripts: *)
(*   jarvis/db/figshare.py          datasets, data, get_jid_data,          *)
(*                                  get_wann_electron, get_wann_phonon,    *)
(*                                  get_hk_tb                              *)
(*   jarvis/io/phono3py/outputs.py  Kappa, JDOS.select_jdos,               *)
(*                                  JDOS.get_gv_outer_product,             *)
(*                                  JDOS.mode_to_spectral_wtd,             *)
(*                                  JDOS.mode_to_spectral_unwtd,           *)
(*                                  JDOS.mode_to_spectral,                 *)
(*                                  JDOS.linewidth_from_jdos,              *)
(*                                  JDOS.kappa_from_linewidth              *)
(*   jarvis/io/phono3py/inputs.py   prepare_jdos, prepare_gruneisen_FC3,   *)
(*                                  prepare_gruneisen_quasiharmonic        *)
(* Each component has its own specification (SpecFigshare, SpecKappa,      *)
(* SpecHk, SpecJdos, SpecInputs); the variables of the other components    *)
(* keep their idle values.                                                 *)
(***************************************************************************)
EXTENDS Integers, Sequences, FiniteSets, TLC

VARIABLES
    phase,   \* figshare module: "unloaded" | "ready" | "failed"
    files,   \* the module directory: file name -> content
    fls,     \* the module global fls (line 187)
    idxLoads,\* how many times line 187 has assigned fls
    pc,      \* position inside a running data() call, "idle" between calls
    frame,   \* locals of the running data() call
    last,    \* the outcome of the last completed call
    kobj,    \* the Kappa object under test
    kres,    \* the outcome of the last Kappa.kappa call
    hkin,    \* the arguments (k, w) of get_hk_tb
    hkout,   \* the result of the last get_hk_tb call
    jobj,    \* the JDOS object under test, its phonopy object and the
             \* files of its directory
    jres,    \* the outcome of the last JDOS method call
    call,    \* the arguments of the running inputs.py call
    ipc,     \* position inside the running inputs.py call
    log,     \* what inputs.py calls printed and ran, in order
    disk     \* the working directory of inputs.py: file name -> lines

figVars == <<phase, files, fls, idxLoads, pc, frame, last>>
kappaVars == <<kobj, kres>>
hkVars == <<hkin, hkout>>
jdosVars == <<jobj, jres>>
inputVars == <<call, ipc, log, disk>>
\* What each component leaves alone.
nonFigVars == <<kappaVars, hkVars, jdosVars, inputVars>>
nonKappaVars == <<figVars, hkVars, jdosVars, inputVars>>
nonHkVars == <<figVars, kappaVars, jdosVars, inputVars>>
nonJdosVars == <<figVars, kappaVars, hkVars, inputVars>>
nonInputVars == <<figVars, kappaVars, hkVars, jdosVars>>
vars == <<phase, files, fls, idxLoads, pc, frame, last, kobj, kres, hkin, hkout,
          jobj, jres, call, ipc, log, disk>>

(***************************************************************************)
(* Values shared by the components.                                        *)
(***************************************************************************)
\* A local name that was never assigned (reading it raises UnboundLocalError).
Unbound == "<unbound>"
\* Python's None.
None == [tag |-> "None"]

(***************************************************************************)
(* figshare.py: the dataset catalog.                                       *)
(***************************************************************************)
\* The names datasets() has a branch for.
BranchNames ==
    {"dft_2d", "dft_3d", "stm_2d", "cfid_3d", "mp_3d", "mp_3d_2020", "megnet",
     "oqmd_3d", "oqmd_3d_no_cfid", "twod_matpd", "qm9", "aflow1", "aflow2",
     "arXiv", "cord19", "raw_files"}
\* Names with no branch.
UnknownNames == {"", "bogus"}
AllNames == BranchNames \cup UnknownNames

\* What the network and the two remote files give the stm_2d branch.
StmEnvs == {"get1_fails", "not_zip", "get2_fails", "not_json", "members", "empty"}

\* A normal return of datasets(): line 132 with both locals assigned.
datasets_return(url, js_tag) ==
    [outcome |-> "return", exc |-> "none", url |-> url, js_tag |-> js_tag,
     reqs |-> <<>>, constructed |-> {}]

\* An exception leaving datasets().
datasets_raise(exc, reqs, constructed) ==
    [outcome |-> "raise", exc |-> exc, url |-> Unbound, js_tag |-> Unbound,
     reqs |-> reqs, constructed |-> constructed]

\* Lines 32-64, then 132: the branch never assigns url or js_tag; it uses the
\* names mpimg and img_str, which the module never defines.
stm_2d_branch(env) ==
    LET link_1 == "https://ndownloader.figshare.com/files/21884952"
        link_2 == "https://ndownloader.figshare.com/files/21893379"
    IN CASE env = "get1_fails" ->
              datasets_raise("ConnectionError", <<link_1>>, {})
         [] env = "not_zip" ->
              datasets_raise("BadZipFile", <<link_1>>, {})
         [] env = "get2_fails" ->
              datasets_raise("ConnectionError", <<link_1, link_2>>, {})
         [] env = "not_json" ->
              datasets_raise("JSONDecodeError", <<link_1, link_2>>, {})
         [] env = "members" ->
              \* line 45: first iteration of the loop
              datasets_raise("NameError", <<link_1, link_2>>, {})
         [] OTHER ->
              \* empty archive: the loop body never runs, line 132 reads url
              datasets_raise("UnboundLocalError", <<link_1, link_2>>, {})

\* The else branch as it would be with the raise statement.
unknown_branch_raising(dataset) ==
    datasets_raise("ValueError", <<>>, {"ValueError"})

\* Lines 130-132: the ValueError is built and dropped, then line 132 reads
\* the unassigned url.
unknown_branch(dataset) ==
    datasets_raise("UnboundLocalError", <<>>, {"ValueError"})

\* datasets(dataset), lines 20-132.
datasets(dataset, env) ==
    CASE dataset = "dft_2d" ->
           datasets_return("https://ndownloader.figshare.com/files/22471019",
                           "jdft_2d-4-26-2020.json")
      [] dataset = "dft_3d" ->
           datasets_return("https://ndownloader.figshare.com/files/22471022",
                           "jdft_3d-4-26-2020.json")
      [] dataset = "stm_2d" -> stm_2d_branch(env)
      [] dataset = "cfid_3d" ->
           datasets_return("https://ndownloader.figshare.com/files/22470818",
                           "jml_3d-4-26-2020.json")
      [] dataset = "mp_3d" ->
           datasets_return("https://ndownloader.figshare.com/files/24979850",
                           "CFID_mp_desc_data_84k.json")
      [] dataset = "mp_3d_2020" ->
           datasets_return("https://ndownloader.figshare.com/files/26791259",
                           "all_mp.json")
      [] dataset = "megnet" ->
           datasets_return("https://ndownloader.figshare.com/files/26724977",
                           "megnet.json")
      [] dataset = "oqmd_3d" ->
           datasets_return("https://ndownloader.figshare.com/files/24981170",
                           "CFID_OQMD_460k.json")
      [] dataset = "oqmd_3d_no_cfid" ->
           datasets_return("https://ndownloader.figshare.com/files/26790182",
                           "all_oqmd.json")
      [] dataset = "twod_matpd" ->
           datasets_return("https://ndownloader.figshare.com/files/26789006",
                           "twodmatpd.json")
      [] dataset = "qm9" ->
           datasets_return("https://ndownloader.figshare.com/files/25159592",
                           "qm9_data_cfid.json")
      [] dataset = "aflow1" ->
           datasets_return("https://ndownloader.figshare.com/files/25453256",
                           "CFID_AFLOW1.json")
      [] dataset = "aflow2" ->
           datasets_return("https://ndownloader.figshare.com/files/25453265",
                           "CFID_AFLOW2.json")
      [] dataset = "arXiv" ->
           datasets_return("https://ndownloader.figshare.com/files/26804795",
                           "arXivdataset.json")
      [] dataset = "cord19" ->
           datasets_return("https://ndownloader.figshare.com/files/26804798",
                           "cord19.json")
      [] dataset = "raw_files" ->
           datasets_return("https://ndownloader.figshare.com/files/25295732",
                           "figshare_data-10-28-2020.json")
      [] OTHER -> unknown_branch(dataset)

(***************************************************************************)
(* figshare.py: the module directory, the network and the JSON documents.  *)
(***************************************************************************)
\* The datasets whose cache files the model tracks.
CachedNames == {"dft_2d", "raw_files"}
\* The names external callers pass to data() and get_jid_data().
CallNames == CachedNames \cup {"stm_2d", "bogus"}

js_tag_of(name) == datasets(name, "empty").js_tag
url_of(name) == datasets(name, "empty").url

JsonFiles == {js_tag_of(n) : n \in CachedNames}
TmpZip == "tmp.zip"
FileNames == JsonFiles \cup {TmpZip}

\* Material identifiers, as sequences of text pieces (".zip" is one piece).
J1 == <<"JVASP-1">>
J2 == <<"JVASP-2">>
J3 == <<"JVASP-3">>
JIDs == {J1, J2, J3}

\* The JSON texts a file or an archive member may hold: two dataset lists and
\* two raw-file indexes; NoDoc stands for "no such member".
DatasetDocs == {"listA", "listB"}
IndexDocs == {"indexA", "indexB"}
NoDoc == "-"
DocsFor(f) == IF f = js_tag_of("raw_files") THEN IndexDocs ELSE DatasetDocs

\* An entry of the raw-file index.
Entry(name, url) ==
    [isdict |-> TRUE, name |-> name, download_url |-> url]
\* A list item of the index that is not a dict.
NotDict(text) ==
    [isdict |-> FALSE, name |-> <<text>>, download_url |-> ""]

\* json.load of a text (jarvis.db.jsonutils.loadjson reads the file and
\* decodes it).
json_load(doc) ==
    CASE doc = "listA" ->
           [tag |-> "list",
            val |-> << [jid |-> J1, v |-> 11], [jid |-> J2, v |-> 12],
                       [jid |-> J1, v |-> 13] >>]
      [] doc = "listB" ->
           [tag |-> "list", val |-> << [jid |-> J2, v |-> 21] >>]
      [] doc = "indexA" ->
           [tag |-> "index",
            WANN |-> << Entry(J1 \o <<".zip">>, "w1"),
                        Entry(J2 \o <<".zip">>, "w2"),
                        Entry(J1 \o <<".zip">>, "w3") >>,
            FDELAST |-> << NotDict("README"),
                           Entry(<<"x">> \o J1 \o <<".zip">>, "p1"),
                           Entry(J2 \o <<".zip">>, "p2"),
                           Entry(J2 \o <<".zip", ".bak">>, "p3"),
                           Entry(J1, "p4") >>]
      [] OTHER ->
           [tag |-> "index",
            WANN |-> << Entry(J2 \o <<".zip">>, "w4") >>,
            FDELAST |-> << NotDict(".zip") >>]

\* File contents.
Absent == [kind |-> "absent", doc |-> NoDoc, zip |-> FALSE, members |-> <<>>]
JsonFile(doc) == [kind |-> "json", doc |-> doc, zip |-> FALSE, members |-> <<>>]

\* HTTP response bodies: a zip archive (member name -> text, NoDoc when the
\* archive has no such member) or something that is not a zip archive.
MemberMaps == [JsonFiles -> {NoDoc} \cup DatasetDocs \cup IndexDocs]
Archives ==
    {m \in MemberMaps : \A f \in JsonFiles : m[f] \in {NoDoc} \cup DocsFor(f)}
ZipBody(m) == [kind |-> "body", doc |-> NoDoc, zip |-> TRUE, members |-> m]
NotZipBody == [kind |-> "body", doc |-> NoDoc, zip |-> FALSE, members |-> <<>>]
Bodies == {ZipBody(m) : m \in Archives} \cup {NotZipBody}

\* os.path.isfile(path)
isfile(fs, name) == fs[name].kind # "absent"

\* zipObj.extractall(dir), line 160: every member of the archive is written
\* into the module directory, over a file of the same name.
extractall(fs, body) ==
    [f \in FileNames |->
        IF f \in JsonFiles /\ body.members[f] # NoDoc
        THEN JsonFile(body.members[f])
        ELSE fs[f]]

\* The download that forgets line 161.
remove_skipped(fs, name) == fs

\* os.remove(zfile), line 161
remove(fs, name) == [fs EXCEPT ![name] = Absent]

\* A cache test that always misses.
cache_hit_never(fs, js_tag) == FALSE

\* Lines 150-151: the cached file exists.
cache_hit(fs, js_tag) == isfile(fs, js_tag)

(***************************************************************************)
(* figshare.py: data(), lines 135-163, one action per statement that       *)
(* touches the network or the disk.  The call runs on behalf of the module *)
(* import (line 187), of an external caller, or of get_jid_data (line 168).*)
(***************************************************************************)
NoFiles == [f \in FileNames |-> Absent]

NoFrame ==
    [op |-> "-", dataset |-> "-", jid |-> <<>>, url |-> "-", js_tag |-> "-",
     body |-> NotZipBody, hit |-> FALSE, pre |-> NoFiles,
     reqs |-> <<>>, steps |-> <<>>]

\* The record of a completed call.
Done(op, dataset, jid, outcome, exc, ret, reqs, steps, hit, pre, body, built) ==
    [op |-> op, dataset |-> dataset, jid |-> jid, outcome |-> outcome,
     exc |-> exc, ret |-> ret, reqs |-> reqs, steps |-> steps, hit |-> hit,
     pre |-> pre, body |-> body, built |-> built]

NoCall ==
    Done("-", "-", <<>>, "-", "none", None, <<>>, <<>>, FALSE, NoFiles,
         NotZipBody, {})

\* An exception leaves the running data() call (and its caller).
Raise(exc, steps) ==
    /\ last' = Done(frame.op, frame.dataset, frame.jid, "raise", exc, None,
                    frame.reqs, steps, frame.hit, frame.pre, frame.body, {})
    /\ pc' = "idle"
    /\ frame' = NoFrame
    /\ phase' = IF frame.op = "import" THEN "failed" ELSE phase
    /\ UNCHANGED <<fls, idxLoads>>

EnvsFor(dataset) == IF dataset = "stm_2d" THEN StmEnvs ELSE {"empty"}

\* Lines 137-151: datasets(dataset), the path and the cache test.
Enter(op, dataset, jid, env) ==
    LET d == datasets(dataset, env)
    IN IF d.outcome = "raise"
       THEN /\ last' = Done(op, dataset, jid, "raise", d.exc, None, d.reqs,
                            <<"datasets">>, FALSE, files, NotZipBody,
                            d.constructed)
            /\ pc' = "idle"
            /\ frame' = NoFrame
            /\ phase' = IF op = "import" THEN "failed" ELSE phase
            /\ UNCHANGED <<files, fls, idxLoads>>
       ELSE /\ frame' = [op |-> op, dataset |-> dataset, jid |-> jid,
                         url |-> d.url, js_tag |-> d.js_tag,
                         body |-> NotZipBody,
                         hit |-> cache_hit(files, d.js_tag), pre |-> files,
                         reqs |-> <<>>, steps |-> <<"datasets">>]
            /\ pc' = IF cache_hit(files, d.js_tag) THEN "load" ELSE "get"
            /\ UNCHANGED <<files, fls, idxLoads, last, phase>>

\* Line 187, fls = data("raw_files"), run once when the module is imported.
ImportModule ==
    /\ UNCHANGED nonFigVars
    /\ phase = "unloaded"
    /\ pc = "idle"
    /\ Enter("import", "raw_files", <<>>, "empty")

\* An external call data(dataset).
CallData ==
    /\ UNCHANGED nonFigVars
    /\ phase = "ready"
    /\ pc = "idle"
    /\ \E dataset \in CallNames : \E env \in EnvsFor(dataset) :
          Enter("data", dataset, <<>>, env)

\* An external call get_jid_data(jid, dataset): line 168.
CallGetJidData ==
    /\ UNCHANGED nonFigVars
    /\ phase = "ready"
    /\ pc = "idle"
    /\ \E dataset \in CallNames : \E env \in EnvsFor(dataset) :
       \E jid \in JIDs :
          Enter("get_jid_data", dataset, jid, env)

\* Line 153: r = requests.get(url).
StepGet ==
    /\ UNCHANGED nonFigVars
    /\ pc = "get"
    /\ \E ok \in BOOLEAN : \E body \in Bodies :
          LET reqs == Append(frame.reqs, frame.url)
              steps == Append(frame.steps, "get")
          IN IF ~ok
             THEN /\ body = NotZipBody
                  /\ last' = Done(frame.op, frame.dataset, frame.jid, "raise",
                                  "ConnectionError", None, reqs, steps,
                                  frame.hit, frame.pre, frame.body, {})
                  /\ pc' = "idle"
                  /\ frame' = NoFrame
                  /\ phase' = IF frame.op = "import" THEN "failed" ELSE phase
                  /\ UNCHANGED <<files, fls, idxLoads>>
             ELSE /\ frame' = [frame EXCEPT !.body = body, !.reqs = reqs,
                                            !.steps = steps]
                  /\ pc' = "write"
                  /\ UNCHANGED <<files, fls, idxLoads, last, phase>>

\* Lines 154-156: the response body is written to tmp.zip.
StepWrite ==
    /\ UNCHANGED nonFigVars
    /\ pc = "write"
    /\ files' = [files EXCEPT ![TmpZip] = frame.body]
    /\ frame' = [frame EXCEPT !.steps = Append(@, "write")]
    /\ pc' = "extract"
    /\ UNCHANGED <<fls, idxLoads, last, phase>>

\* Lines 158-160: the archive is opened and extracted into the directory.
StepExtract ==
    /\ UNCHANGED nonFigVars
    /\ pc = "extract"
    /\ IF ~files[TmpZip].zip
       THEN /\ Raise("BadZipFile", Append(frame.steps, "extractall"))
            /\ UNCHANGED files
       ELSE /\ files' = extractall(files, files[TmpZip])
            /\ frame' = [frame EXCEPT !.steps = Append(@, "extractall")]
            /\ pc' = "remove"
            /\ UNCHANGED <<fls, idxLoads, last, phase>>

\* Line 161: os.remove(zfile).
StepRemove ==
    /\ UNCHANGED nonFigVars
    /\ pc = "remove"
    /\ files' = remove(files, TmpZip)
    /\ frame' = [frame EXCEPT !.steps = Append(@, "remove")]
    /\ pc' = "load"
    /\ UNCHANGED <<fls, idxLoads, last, phase>>

\* loadjson(path): the file is opened and its text decoded.
loadjson(fs, path) == json_load(fs[path].doc)

\* The search that keeps going and returns the last match.
RECURSIVE jid_search_last(_, _, _)
jid_search_last(d, i, jid) ==
    IF i > Len(d) THEN None
    ELSE LET rest == jid_search_last(d, i + 1, jid)
         IN IF rest # None THEN rest
            ELSE IF d[i].jid = jid THEN [tag |-> "record", val |-> d[i]]
            ELSE None

\* Lines 169-171: the first record whose "jid" is jid, else None (the
\* function falls off its end).
RECURSIVE jid_search(_, _, _)
jid_search(d, i, jid) ==
    IF i > Len(d) THEN None
    ELSE IF d[i].jid = jid THEN [tag |-> "record", val |-> d[i]]
    ELSE jid_search(d, i + 1, jid)

\* Lines 162-163, and what the caller does with the value: line 187 binds
\* fls, get_jid_data searches it (iterating a dict gives its keys, strings,
\* and i["jid"] on a string is a TypeError).
StepLoad ==
    /\ UNCHANGED nonFigVars
    /\ pc = "load"
    /\ UNCHANGED files
    /\ LET steps == Append(frame.steps, "loadjson")
       IN IF ~isfile(files, frame.js_tag)
          THEN Raise("FileNotFoundError", steps)
          ELSE LET d == loadjson(files, frame.js_tag)
                   typeErr == frame.op = "get_jid_data" /\ d.tag # "list"
                   ret == IF frame.op = "get_jid_data"
                          THEN jid_search(d.val, 1, frame.jid)
                          ELSE d
               IN IF typeErr
                  THEN Raise("TypeError", steps)
                  ELSE /\ last' = Done(frame.op, frame.dataset, frame.jid,
                                       "return", "none", ret, frame.reqs,
                                       steps, frame.hit, frame.pre,
                                       frame.body, {})
                       /\ pc' = "idle"
                       /\ frame' = NoFrame
                       /\ fls' = IF frame.op = "import" THEN d ELSE fls
                       /\ idxLoads' = IF frame.op = "import"
                                      THEN idxLoads + 1 ELSE idxLoads
                       /\ phase' = IF frame.op = "import" THEN "ready"
                                   ELSE phase

\* A direct call datasets(dataset).
CallDatasets ==
    /\ UNCHANGED nonFigVars
    /\ phase = "ready"
    /\ pc = "idle"
    /\ \E dataset \in AllNames : \E env \in EnvsFor(dataset) :
          LET d == datasets(dataset, env)
          IN last' = Done("datasets", dataset, <<>>, d.outcome, d.exc,
                          IF d.outcome = "return"
                          THEN [tag |-> "pair", val |-> <<d.url, d.js_tag>>]
                          ELSE None,
                          d.reqs, <<>>, FALSE, files, NotZipBody,
                          d.constructed)
    /\ UNCHANGED <<phase, files, fls, idxLoads, pc, frame>>

(***************************************************************************)
(* figshare.py: the record fetchers, lines 190-242.                        *)
(***************************************************************************)
\* What a download of an entry's archive gives: no connection, an archive
\* without the members the fetcher reads, or one of two complete archives.
EntryResps == {"conn_fail", "no_member", "zipA", "zipB"}
\* The number of download responses the environment prepares for one call;
\* request number k is answered by response ((k - 1) % MaxFetch) + 1.
MaxFetch == 2
RespFor(resps, k) == resps[((k - 1) % MaxFetch) + 1]

Min(S) == CHOOSE x \in S : \A y \in S : x <= y

\* name.split(".zip")[0]: the text before the first ".zip".
split_zip_0(name) ==
    LET at == {i \in 1..Len(name) : name[i] = ".zip"}
    IN IF at = {} THEN name ELSE SubSeq(name, 1, Min(at) - 1)

\* The objects built from a downloaded archive.
Obj(class, src) == [tag |-> class, src |-> src]
EmptyStr == Obj("str", "")
UnboundObj == Obj("unbound", "")

\* The loop that requests every entry, matching or not.
RECURSIVE wann_electron_loop_all(_, _, _, _, _)
wann_electron_loop_all(entries, i, jid, resps, st) ==
    IF i > Len(entries) \/ st.exc # "none" THEN st
    ELSE LET reqs == Append(st.reqs, entries[i].download_url)
             r == RespFor(resps, Len(reqs))
         IN wann_electron_loop_all(entries, i + 1, jid, resps,
                IF r \in {"zipA", "zipB"}
                THEN [st EXCEPT !.reqs = reqs, !.w = Obj("WannierHam", r),
                                !.ef = Obj("efermi", r),
                                !.atoms = Obj("Atoms", r)]
                ELSE [st EXCEPT !.reqs = reqs, !.exc = "ConnectionError"])

\* Lines 194-214: every entry of the list is visited; each matching one is
\* downloaded and overwrites w, ef and atoms.
RECURSIVE wann_electron_loop(_, _, _, _, _)
wann_electron_loop(entries, i, jid, resps, st) ==
    IF i > Len(entries) \/ st.exc # "none" THEN st
    ELSE IF ~entries[i].isdict
         THEN [st EXCEPT !.exc = "TypeError"]
    ELSE IF split_zip_0(entries[i].name) = jid
         THEN LET reqs == Append(st.reqs, entries[i].download_url)
                  r == RespFor(resps, Len(reqs))
              IN wann_electron_loop(entries, i + 1, jid, resps,
                   CASE r = "conn_fail" ->
                          [st EXCEPT !.reqs = reqs, !.exc = "ConnectionError"]
                     [] r = "no_member" ->
                          [st EXCEPT !.reqs = reqs, !.exc = "KeyError"]
                     [] OTHER ->
                          [st EXCEPT !.reqs = reqs,
                                     !.w = Obj("WannierHam", r),
                                     !.ef = Obj("efermi", r),
                                     !.atoms = Obj("Atoms", r)])
    ELSE wann_electron_loop(entries, i + 1, jid, resps, st)

\* get_wann_electron(jid), lines 190-215: w and ef start as "", atoms has no
\* initial value, and line 215 reads all three.
get_wann_electron(index, jid, resps) ==
    LET st == wann_electron_loop(index.WANN, 1, jid, resps,
                  [w |-> EmptyStr, ef |-> EmptyStr, atoms |-> UnboundObj,
                   reqs |-> <<>>, exc |-> "none"])
        exc == IF st.exc # "none" THEN st.exc
               ELSE IF st.atoms = UnboundObj THEN "UnboundLocalError"
               ELSE "none"
    IN [outcome |-> IF exc = "none" THEN "return" ELSE "raise",
        exc |-> exc,
        ret |-> IF exc = "none"
                THEN [tag |-> "tuple", val |-> <<st.w, st.ef, st.atoms>>]
                ELSE None,
        reqs |-> st.reqs]

\* Lines 223-242: the first dict entry whose name matches is downloaded and
\* the function returns from inside the loop; falling off the end gives None.
RECURSIVE wann_phonon_loop(_, _, _, _)
wann_phonon_loop(entries, i, jid, resps) ==
    IF i > Len(entries)
    THEN [outcome |-> "return", exc |-> "none", ret |-> None, reqs |-> <<>>]
    ELSE IF entries[i].isdict /\ split_zip_0(entries[i].name) = jid
         THEN LET r == RespFor(resps, 1)
                  reqs == <<entries[i].download_url>>
              IN CASE r = "conn_fail" ->
                        [outcome |-> "raise", exc |-> "ConnectionError",
                         ret |-> None, reqs |-> reqs]
                   [] r = "no_member" ->
                        [outcome |-> "raise", exc |-> "KeyError",
                         ret |-> None, reqs |-> reqs]
                   [] OTHER ->
                        [outcome |-> "return", exc |-> "none",
                         ret |-> [tag |-> "tuple",
                                  val |-> <<Obj("WannierHam", r),
                                            Obj("Atoms", r)>>],
                         reqs |-> reqs]
    ELSE wann_phonon_loop(entries, i + 1, jid, resps)

\* get_wann_phonon(jid), lines 218-242.
get_wann_phonon(index, jid, resps) ==
    wann_phonon_loop(index.FDELAST, 1, jid, resps)

\* An external call get_wann_electron(jid); the name exists once the module
\* body has run past line 187.
CallWannElectron ==
    /\ UNCHANGED nonFigVars
    /\ phase = "ready"
    /\ pc = "idle"
    /\ \E jid \in JIDs : \E resps \in [1..MaxFetch -> EntryResps] :
          LET r == get_wann_electron(fls, jid, resps)
          IN last' = Done("get_wann_electron", "-", jid, r.outcome, r.exc,
                          r.ret, r.reqs, <<>>, FALSE, files, NotZipBody, {})
    /\ UNCHANGED <<phase, files, fls, idxLoads, pc, frame>>

\* An external call get_wann_phonon(jid).
CallWannPhonon ==
    /\ UNCHANGED nonFigVars
    /\ phase = "ready"
    /\ pc = "idle"
    /\ \E jid \in JIDs : \E resps \in [1..MaxFetch -> EntryResps] :
          LET r == get_wann_phonon(fls, jid, resps)
          IN last' = Done("get_wann_phonon", "-", jid, r.outcome, r.exc,
                          r.ret, r.reqs, <<>>, FALSE, files, NotZipBody, {})
    /\ UNCHANGED <<phase, files, fls, idxLoads, pc, frame>>

(***************************************************************************)
(* figshare.py: the specification.                                         *)
(***************************************************************************)
Unset == [tag |-> "unset"]

\* The state of the other components while one component runs.
IdleFigshare ==
    /\ phase = "unloaded"
    /\ files = NoFiles
    /\ fls = Unset
    /\ idxLoads = 0
    /\ pc = "idle"
    /\ frame = NoFrame
    /\ last = NoCall
IdleKappa == kobj = "-" /\ kres = "-"
IdleHk == hkin = "-" /\ hkout = "-"
IdleJdos == jobj = "-" /\ jres = "-"
IdleInputs == call = "-" /\ ipc = "-" /\ log = "-" /\ disk = "-"

\* A fresh process: the module is not imported yet; the module directory
\* holds whatever earlier runs cached, and possibly a tmp.zip that an
\* earlier failed extraction left behind.
InitFigshare ==
    /\ phase = "unloaded"
    /\ files \in {fs \in [FileNames -> {Absent, NotZipBody}
                                       \cup {JsonFile(d) : d \in DatasetDocs \cup IndexDocs}] :
                    /\ fs[TmpZip] \in {Absent, NotZipBody}
                    /\ \A f \in JsonFiles :
                          fs[f] \in {Absent} \cup {JsonFile(d) : d \in DocsFor(f)}}
    /\ fls = Unset
    /\ idxLoads = 0
    /\ pc = "idle"
    /\ frame = NoFrame
    /\ last = NoCall
    /\ IdleKappa
    /\ IdleHk
    /\ IdleJdos
    /\ IdleInputs

NextFigshare ==
    \/ ImportModule
    \/ CallDatasets
    \/ CallData
    \/ CallGetJidData
    \/ StepGet
    \/ StepWrite
    \/ StepExtract
    \/ StepRemove
    \/ StepLoad
    \/ CallWannElectron
    \/ CallWannPhonon

SpecFigshare == InitFigshare /\ [][NextFigshare]_vars

(***************************************************************************)
(* figshare.py: the claims.                                                *)
(***************************************************************************)
\* A call has just completed and nothing has run since.
Completed(op) == pc = "idle" /\ last.op = op

\* The cached file of the call's dataset existed when the call started.
HadCache(c) ==
    /\ c.dataset \in CachedNames
    /\ isfile(c.pre, js_tag_of(c.dataset))

\* C1: for every name datasets() has a branch for, datasets(name) returns a
\* (URL, cached filename) pair, and no other name has the same URL or the
\* same filename.
C1_EveryBranchReturnsItsPair ==
    (Completed("datasets") /\ last.dataset \in BranchNames) =>
        /\ last.outcome = "return"
        /\ last.ret.tag = "pair"
        /\ \A other \in BranchNames \ {last.dataset, "stm_2d"} :
              /\ url_of(other) # last.ret.val[1]
              /\ js_tag_of(other) # last.ret.val[2]

\* C1, for the fifteen branches that assign url and js_tag: the pair is
\* returned and shared with no other of them.
C1_AssigningBranches ==
    (Completed("datasets") /\ last.dataset \in BranchNames \ {"stm_2d"}) =>
        /\ last.outcome = "return"
        /\ last.ret.tag = "pair"
        /\ last.reqs = <<>>
        /\ \A other \in BranchNames \ {last.dataset, "stm_2d"} :
              /\ url_of(other) # last.ret.val[1]
              /\ js_tag_of(other) # last.ret.val[2]

\* The part of C2 that every state satisfies: while a data() call that found
\* its cached file runs (for an external caller, for line 187 or for
\* get_jid_data), no file has changed and no request was made; when it has
\* completed, it has returned the decoded text of the cached file.
C2_HitState ==
    /\ (pc # "idle" /\ HadCache(frame)) =>
          /\ files = frame.pre
          /\ frame.reqs = <<>>
          /\ pc = "load"
    /\ (pc = "idle" /\ last.op \in {"data", "import"} /\ HadCache(last)) =>
          /\ last.reqs = <<>>
          /\ files = last.pre
          /\ last.steps = <<"datasets", "loadjson">>
          /\ last.outcome = "return"
          /\ last.ret = json_load(last.pre[js_tag_of(last.dataset)].doc)
\* The part of C2 that every step satisfies: a data(name) call that completes
\* right after a successful data(name) call returns the same value and makes
\* no request.
C2_Repeat ==
    (/\ pc' = "idle"
     /\ last.op \in {"data", "import"} /\ last.outcome = "return"
     /\ last'.op = "data" /\ last'.dataset = last.dataset) =>
        /\ last'.outcome = "return"
        /\ last'.ret = last.ret
        /\ last'.reqs = <<>>
\* C2: a data(name) call that finds its cached file makes no HTTP request,
\* never writes tmp.zip or any other file, and returns the decoded text of
\* the cached file; and a data(name) call that follows a successful
\* data(name) call returns the same value without any request, whatever the
\* server would answer.
C2_CacheHitNoFetch == [](C2_HitState) /\ [][C2_Repeat]_vars

\* A data("dft_2d") call has returned from a cache whose file was there.
C2_Witness ==
    /\ Completed("data")
    /\ last.dataset = "dft_2d"
    /\ HadCache(last)
    /\ last.outcome = "return"
    /\ last.ret.val[1].v = 11

\* C3: a data(name) call that finds no cached file and returns normally has
\* made one GET of the catalog URL, written the body to tmp.zip, extracted
\* the archive, removed tmp.zip and loaded the cached file, in this order;
\* afterwards the cached file exists, tmp.zip does not, and the value
\* returned is the decoded text of the archive member named js_tag.
C3_MissDownloadsInOrder ==
    /\ (pc = "write" /\ ~HadCache(frame)) =>
          (frame.reqs = <<frame.url>> /\ files = frame.pre)
    /\ pc = "extract" => files[TmpZip] = frame.body
    /\ pc = "remove" => (isfile(files, TmpZip) /\ frame.body.zip)
    /\ (pc = "load" /\ ~HadCache(frame)) => ~isfile(files, TmpZip)
    /\ (/\ pc = "idle" /\ last.op \in {"data", "import"}
        /\ last.dataset \in CachedNames
        /\ ~HadCache(last) /\ last.outcome = "return") =>
          /\ last.steps = <<"datasets", "get", "write", "extractall",
                            "remove", "loadjson">>
          /\ last.reqs = <<url_of(last.dataset)>>
          /\ isfile(files, js_tag_of(last.dataset))
          /\ ~isfile(files, TmpZip)
          /\ last.body.zip
          /\ files[js_tag_of(last.dataset)] =
                JsonFile(last.body.members[js_tag_of(last.dataset)])
          /\ last.ret = json_load(last.body.members[js_tag_of(last.dataset)])

\* A data("dft_2d") call has downloaded the archive and returned its list,
\* although a stale tmp.zip was there before.
C3_Witness ==
    /\ Completed("data")
    /\ last.dataset = "dft_2d"
    /\ ~HadCache(last)
    /\ isfile(last.pre, TmpZip)
    /\ last.outcome = "return"
    /\ last.ret.val[1].v = 21

\* C4: for a name with no branch, datasets() builds a ValueError and does
\* not raise it; what leaves the function (and data(), its caller) is the
\* UnboundLocalError of the return statement reading the unassigned url.
C4_ValueErrorNeverRaised ==
    (pc = "idle" /\ last.op \in {"datasets", "data", "get_jid_data"}
     /\ last.dataset \in UnknownNames) =>
        /\ "ValueError" \in last.built
        /\ last.exc # "ValueError"
        /\ last.outcome = "raise"
        /\ last.exc = "UnboundLocalError"
        /\ last.reqs = <<>>

\* datasets("bogus") has completed.
C4_Witness ==
    /\ Completed("datasets")
    /\ last.dataset = "bogus"
    /\ last.built = {"ValueError"}
    /\ last.exc = "UnboundLocalError"

\* The download URLs of the entries of a list that match jid, in list order.
MatchUrls(entries, jid, dictOnly) ==
    LET hit(e) == /\ (dictOnly => e.isdict)
                  /\ split_zip_0(e.name) = jid
        RECURSIVE pick(_)
        pick(i) == IF i > Len(entries) THEN <<>>
                   ELSE IF hit(entries[i])
                        THEN <<entries[i].download_url>> \o pick(i + 1)
                        ELSE pick(i + 1)
    IN pick(1)

IsPrefix(a, b) == Len(a) <= Len(b) /\ a = SubSeq(b, 1, Len(a))

\* C7: when no WANN entry matches jid, get_wann_electron(jid) downloads
\* nothing and returns, without raising, its initial empty w and ef.
C7_NoMatchReturnsEmpty ==
    (Completed("get_wann_electron")
     /\ MatchUrls(fls.WANN, last.jid, FALSE) = <<>>) =>
        /\ last.reqs = <<>>
        /\ last.outcome = "return"
        /\ last.ret.val[1] = EmptyStr
        /\ last.ret.val[2] = EmptyStr

\* C8: get_jid_data returns the first record of the dataset whose jid is the
\* one asked for, and None when there is none; get_wann_phonon requests the
\* first dict entry of FD-ELAST whose name matches and nothing else, and
\* returns None, with no request, when no dict entry matches.
C8_FirstMatchOrNone ==
    /\ (Completed("get_jid_data") /\ last.dataset \in CachedNames) =>
          LET d == json_load(files[js_tag_of(last.dataset)].doc)
          IN /\ (last.outcome = "raise" /\ isfile(files, js_tag_of(last.dataset))
                 /\ last.steps[Len(last.steps)] = "loadjson") => d.tag # "list"
             /\ last.outcome = "return" =>
                  LET m == {i \in 1..Len(d.val) : d.val[i].jid = last.jid}
                  IN IF m = {} THEN last.ret = None
                     ELSE last.ret = [tag |-> "record", val |-> d.val[Min(m)]]
    /\ Completed("get_wann_phonon") =>
          LET urls == MatchUrls(fls.FDELAST, last.jid, TRUE)
          IN IF urls = <<>>
             THEN last.outcome = "return" /\ last.ret = None /\ last.reqs = <<>>
             ELSE /\ last.reqs = <<urls[1]>>
                  /\ last.outcome = "return" => last.ret.tag = "tuple"

\* get_jid_data has returned the first of the two JVASP-1 records of a list.
C8_Witness ==
    /\ Completed("get_jid_data")
    /\ last.outcome = "return"
    /\ last.jid = J1
    /\ last.ret # None
    /\ last.ret.val.v = 11

\* C9: the index is loaded by the import, once, before any fetcher call; a
\* fetcher call never requests the index URL and makes at most one request
\* per matching entry, in list order.
C9_IndexPrefetchedOnce ==
    /\ idxLoads <= 1
    /\ (phase = "ready") <=> (idxLoads = 1)
    /\ idxLoads = 1 => fls.tag = "index"
    /\ (pc = "idle" /\ last.op \in {"get_wann_electron", "get_wann_phonon"}) =>
          /\ idxLoads = 1
          /\ \A k \in 1..Len(last.reqs) : last.reqs[k] # url_of("raw_files")
          /\ IsPrefix(last.reqs,
                      MatchUrls(IF last.op = "get_wann_electron"
                                THEN fls.WANN ELSE fls.FDELAST,
                                last.jid, last.op = "get_wann_phonon"))

\* get_wann_electron has downloaded both JVASP-1 entries of the index.
C9_Witness ==
    /\ Completed("get_wann_electron")
    /\ last.jid = J1
    /\ last.outcome = "return"
    /\ last.reqs = <<"w1", "w3">>

(***************************************************************************)
(* figshare.py: get_hk_tb, lines 245-256.                                  *)
(* Complex numbers are pairs <<re, im>> of integers.  The wavevector k is  *)
(* given in quarters (k4 = 4 k), so that every phase exp(2 pi i k.R) is a  *)
(* power of i; the entries of HR are even, so that the halving of line 255 *)
(* is exact.                                                               *)
(***************************************************************************)
\* The largest number of lattice vectors of a Hamiltonian.
MaxR == 2

cadd(a, b) == <<a[1] + b[1], a[2] + b[2]>>
cmul(a, b) == <<a[1] * b[1] - a[2] * b[2], a[1] * b[2] + a[2] * b[1]>>
conj(a) == <<a[1], 0 - a[2]>>
chalf(a) == <<a[1] \div 2, a[2] \div 2>>

\* np.sum(kmat * w.R, 1)[i], in quarters.
dot3(a, b) == a[1] * b[1] + a[2] * b[2] + a[3] * b[3]

\* np.exp(1.0j * 2 * np.pi * x) for x = q / 4.
exp_2pi_i(q) ==
    CASE q % 4 = 0 -> <<1, 0>>
      [] q % 4 = 1 -> <<0, 1>>
      [] q % 4 = 2 -> <<-1, 0>>
      [] OTHER -> <<0, -1>>

\* The loop without the phase factors: temp += w.HR[i, :].
RECURSIVE fourier_sum_unphased(_, _, _, _)
fourier_sum_unphased(k4, w, i, temp) ==
    IF i > Len(w.R) THEN temp
    ELSE fourier_sum_unphased(k4, w, i + 1,
            [j \in 1..(w.nwan * w.nwan) |-> cadd(temp[j], w.HR[i][j])])

\* Lines 251-253: temp += exp_ikr[i] * w.HR[i, :], for i = 0 .. nr - 1.
RECURSIVE fourier_sum(_, _, _, _)
fourier_sum(k4, w, i, temp) ==
    IF i > Len(w.R) THEN temp
    ELSE fourier_sum(k4, w, i + 1,
            [j \in 1..(w.nwan * w.nwan) |->
                cadd(temp[j], cmul(exp_2pi_i(dot3(k4, w.R[i])), w.HR[i][j]))])

\* Line 254: np.reshape(temp, (nwan, nwan)), row major.
reshape(temp, nwan) ==
    [r \in 1..nwan |-> [c \in 1..nwan |-> temp[(r - 1) * nwan + c]]]

\* The evaluator without line 255.
symmetrize_skipped(hk, nwan) == hk

\* Line 255: hk = (hk + hk.T.conj()) / 2.0
symmetrize(hk, nwan) ==
    [r \in 1..nwan |-> [c \in 1..nwan |->
        chalf(cadd(hk[r][c], conj(hk[c][r])))]]

\* get_hk_tb(k, w)
get_hk_tb(k4, w) ==
    LET zeros == [j \in 1..(w.nwan * w.nwan) |-> <<0, 0>>]
        temp == fourier_sum(k4, w, 1, zeros)
    IN symmetrize(reshape(temp, w.nwan), w.nwan)

\* The inputs: wavevectors (in quarters), lattice vectors, matrix entries.
KPoints == {<<0, 0, 0>>, <<1, 0, 0>>, <<2, 1, 0>>, <<0, 3, 1>>, <<4, 0, 0>>}
RVecs == {<<0, 0, 0>>, <<1, 0, -1>>}
CVals == {<<2, 0>>, <<-2, 4>>}
NWans == {1, 2}
\* A Hamiltonian w: nwan, the lattice vectors R (nr x 3) and the rows HR
\* (nr x nwan^2).
WannierHam(nwan, R, HR) == [nwan |-> nwan, R |-> R, HR |-> HR]

InitHk ==
    /\ \E n \in NWans : \E nr \in 0..MaxR :
       \E R \in [1..nr -> RVecs] :
       \E HR \in [1..nr -> [1..(n * n) -> CVals]] :
       \E k \in KPoints :
          hkin = [k |-> k, w |-> WannierHam(n, R, HR)]
    /\ hkout = [called |-> FALSE, hk |-> <<>>]
    /\ IdleFigshare
    /\ IdleKappa
    /\ IdleJdos
    /\ IdleInputs

\* A call get_hk_tb(k, w).
CallHk ==
    /\ ~hkout.called
    /\ hkout' = [called |-> TRUE, hk |-> get_hk_tb(hkin.k, hkin.w)]
    /\ UNCHANGED hkin
    /\ UNCHANGED nonHkVars

NextHk == CallHk

SpecHk == InitHk /\ [][NextHk]_vars

\* C5: the matrix get_hk_tb returns has shape nwan x nwan, equals its own
\* conjugate transpose, and has a real diagonal.
C5_Hermitian ==
    hkout.called =>
        LET n == hkin.w.nwan
            h == hkout.hk
        IN /\ Len(h) = n
           /\ \A r \in 1..n : Len(h[r]) = n
           /\ \A r \in 1..n : \A c \in 1..n : h[r][c] = conj(h[c][r])
           /\ \A r \in 1..n : h[r][r][2] = 0

\* A 2 x 2 result with a complex off-diagonal entry, from a Fourier sum over
\* two lattice vectors that was not Hermitian before line 255.
C5_Witness ==
    /\ hkout.called
    /\ hkin.w.nwan = 2
    /\ Len(hkin.w.R) = 2
    /\ hkout.hk[1][2][2] # 0
    /\ LET zeros == [j \in 1..4 |-> <<0, 0>>]
           s == reshape(fourier_sum(hkin.k, hkin.w, 1, zeros), 2)
       IN s[1][2] # conj(s[2][1]) /\ s[1][1][2] # 0

(***************************************************************************)
(* outputs.py: class Kappa, lines 53-105.                                  *)
(***************************************************************************)
\* The number of distinct temperatures a result file may hold.
NTemps == 3
\* The longest list of temperatures a caller passes to the constructor.
MaxUserTemps == 2

TempVals == {100 * i : i \in 1..NTemps}
\* The temperatures kappa() is asked for: those, and one no file holds.
QueryTemps == TempVals \cup {100 * (NTemps + 1)}

\* The six components (xx, yy, zz, yz, xz, xy) the run computed at
\* temperature t.
KappaRow(t) == [c \in 1..6 |-> 10 * t + c]

\* Sequences without repetition.
Distinct(sq) == \A i, j \in 1..Len(sq) : i # j => sq[i] # sq[j]
SeqsUpTo(S, n) == UNION {[1..m -> S] : m \in 0..n}

\* kappa-mxxx.hdf5: the arrays "temperature" and "kappa" (one row per
\* temperature, in the same order).
KappaFile(temps) ==
    [temperature |-> temps,
     kappa |-> [i \in 1..Len(temps) |-> KappaRow(temps[i])]]
KappaFiles ==
    {KappaFile(t) : t \in {sq \in SeqsUpTo(TempVals, NTemps) :
                              Len(sq) >= 1 /\ Distinct(sq)}}

\* The constructor's argument temperatures: None or a list.
TempArgs == {None} \cup {[tag |-> "list", val |-> sq] :
                            sq \in SeqsUpTo(TempVals, MaxUserTemps)}
KappaFormats == {"scalar_xx", "tensor", "scalar_yy"}

\* Kappa.__init__, lines 83-93: a None or empty argument is false.
Kappa(file, temperatures, kappa_format) ==
    [dict |-> file,
     temperatures |-> IF temperatures # None /\ temperatures.val # <<>>
                      THEN temperatures.val
                      ELSE file.temperature,
     kappa_format |-> kappa_format,
     arg |-> temperatures]

\* T in list
contains(list, T) == \E i \in 1..Len(list) : list[i] = T
\* list.index(T), counted from 1: the first position of T.
index(list, T) == Min({i \in 1..Len(list) : list[i] = T})

\* Kappa.kappa(T), lines 98-105: the row is taken at the position T has in
\* self.temperatures; a position past the last row of the file's array is
\* an IndexError; a format other than the two tested returns None.
kappa(self, T) ==
    IF ~contains(self.temperatures, T)
    THEN [outcome |-> "raise", exc |-> "Exception", ret |-> None]
    ELSE LET T_indx == index(self.temperatures, T)
         IN IF self.kappa_format \notin {"tensor", "scalar_xx"}
            THEN [outcome |-> "return", exc |-> "none", ret |-> None]
            ELSE IF T_indx > Len(self.dict.kappa)
            THEN [outcome |-> "raise", exc |-> "IndexError", ret |-> None]
            ELSE [outcome |-> "return", exc |-> "none",
                  ret |-> IF self.kappa_format = "tensor"
                          THEN [tag |-> "row",
                                val |-> self.dict.kappa[T_indx]]
                          ELSE [tag |-> "scalar",
                                val |-> self.dict.kappa[T_indx][1]]]

NoKappaCall ==
    [called |-> FALSE, T |-> 0, outcome |-> "-", exc |-> "none",
     ret |-> None, self |-> None]

InitKappa ==
    /\ kobj \in {Kappa(f, t, fmt) :
                    f \in KappaFiles, t \in TempArgs, fmt \in KappaFormats}
    /\ kres = [NoKappaCall EXCEPT !.self = kobj]
    /\ IdleFigshare
    /\ IdleHk
    /\ IdleJdos
    /\ IdleInputs

\* A call self.kappa(T); the method assigns nothing.
CallKappa ==
    /\ \E T \in QueryTemps :
          LET r == kappa(kobj, T)
          IN kres' = [called |-> TRUE, T |-> T, outcome |-> r.outcome,
                      exc |-> r.exc, ret |-> r.ret, self |-> kobj]
    /\ UNCHANGED kobj
    /\ UNCHANGED nonKappaVars

NextKappa == CallKappa

SpecKappa == InitKappa /\ [][NextKappa]_vars

\* The value the file stores for temperature T, in the object's format.
StoredFor(self, T) ==
    LET row == self.dict.kappa[index(self.dict.temperature, T)]
    IN IF self.kappa_format = "tensor"
       THEN [tag |-> "row", val |-> row]
       ELSE [tag |-> "scalar", val |-> row[1]]

\* C6: kappa(T) raises when T is not in self.temperatures and leaves the
\* object as it was; when T is in self.temperatures it raises nothing.
C6_RaisesIffNotMember ==
    kres.called =>
        /\ kobj = kres.self
        /\ ~contains(kobj.temperatures, kres.T) => kres.outcome = "raise"
        /\ contains(kobj.temperatures, kres.T) => kres.outcome = "return"

\* C6, the part the code satisfies: a T outside self.temperatures raises the
\* generic Exception, and no call changes the object.
C6_NotMemberRaises ==
    kres.called =>
        /\ kobj = kres.self
        /\ ~contains(kobj.temperatures, kres.T) =>
              (kres.outcome = "raise" /\ kres.exc = "Exception")

\* C10: for T in self.temperatures (and in the file), kappa(T) returns the
\* entry the file stores for temperature T (the row at T's position in the
\* file's temperature array), whether temperatures defaulted or was passed.
C10_ReturnsRowOfT ==
    (/\ kres.called
     /\ contains(kobj.temperatures, kres.T)
     /\ contains(kobj.dict.temperature, kres.T)
     /\ kobj.kappa_format \in {"tensor", "scalar_xx"}) =>
        /\ kres.outcome = "return"
        /\ kres.ret = StoredFor(kobj, kres.T)

\* C10, the part the code satisfies: with temperatures defaulted to those of
\* the file, kappa(T) returns the entry stored for T.
C10_DefaultTemperatures ==
    (/\ kres.called
     /\ (kobj.arg = None \/ kobj.arg.val = <<>>)
     /\ contains(kobj.temperatures, kres.T)
     /\ kobj.kappa_format \in {"tensor", "scalar_xx"}) =>
        /\ kres.outcome = "return"
        /\ kres.ret = StoredFor(kobj, kres.T)

\* C11: for T in self.temperatures, whatever kappa_format the object holds,
\* kappa(T) returns a value: the row at T_indx for "tensor", its first
\* component for "scalar_xx", and never None.  (Stated for objects whose
\* temperatures defaulted, so that T_indx is a row of the file.)
C11_AlwaysReturnsValue ==
    (/\ kres.called
     /\ (kobj.arg = None \/ kobj.arg.val = <<>>)
     /\ contains(kobj.temperatures, kres.T)) =>
        LET T_indx == index(kobj.temperatures, kres.T)
        IN /\ kres.outcome = "return"
           /\ kres.ret # None
           /\ kobj.kappa_format = "tensor" =>
                 kres.ret = [tag |-> "row", val |-> kobj.dict.kappa[T_indx]]
           /\ kobj.kappa_format = "scalar_xx" =>
                 kres.ret = [tag |-> "scalar",
                             val |-> kobj.dict.kappa[T_indx][1]]

\* C11, the part the code satisfies: with one of the two formats the method
\* tests for, the value is the row, or its first component; with any other
\* format the method falls off its end and returns None.
C11_TestedFormats ==
    (/\ kres.called
     /\ (kobj.arg = None \/ kobj.arg.val = <<>>)
     /\ contains(kobj.temperatures, kres.T)) =>
        LET T_indx == index(kobj.temperatures, kres.T)
        IN /\ kres.outcome = "return"
           /\ kobj.kappa_format = "tensor" =>
                 kres.ret = [tag |-> "row", val |-> kobj.dict.kappa[T_indx]]
           /\ kobj.kappa_format = "scalar_xx" =>
                 kres.ret = [tag |-> "scalar",
                             val |-> kobj.dict.kappa[T_indx][1]]
           /\ kobj.kappa_format \notin {"tensor", "scalar_xx"} =>
                 kres.ret = None

(***************************************************************************)
(* get_hk_tb against the formula it implements.                            *)
(***************************************************************************)
\* The sum of f[1], ..., f[n] of complex numbers.
RECURSIVE csum(_, _)
csum(f, n) == IF n = 0 THEN <<0, 0>> ELSE cadd(csum(f, n - 1), f[n])

\* Entry (r, c) of S = sum_i exp(2 pi i k.R_i) HR_i, HR_i read as an
\* nwan x nwan matrix, row major.
FourierEntry(k4, w, r, c) ==
    csum([i \in 1..Len(w.R) |->
             cmul(exp_2pi_i(dot3(k4, w.R[i])), w.HR[i][(r - 1) * w.nwan + c])],
         Len(w.R))
\* Entry (r, c) of the plain sum of the HR_i.
PlainEntry(w, r, c) ==
    csum([i \in 1..Len(w.R) |-> w.HR[i][(r - 1) * w.nwan + c]], Len(w.R))
\* Every k.R_i is an integer (k4 = 4 k).
IntegerPhases(k4, w) == \A i \in 1..Len(w.R) : dot3(k4, w.R[i]) % 4 = 0
\* S is Hermitian.
FourierHermitian(k4, w) ==
    \A r, c \in 1..w.nwan :
        FourierEntry(k4, w, r, c) = conj(FourierEntry(k4, w, c, r))

\* C12: get_hk_tb(k, w) is (S + S^H)/2 for the Fourier sum S; where every
\* k.R_i is an integer it is the Hermitian part of the plain sum of the
\* HR_i; where S is Hermitian already it is S.
C12_SymmetrizedFourierSum ==
    hkout.called =>
        LET k == hkin.k
            w == hkin.w
            n == w.nwan
            h == hkout.hk
        IN /\ \A r, c \in 1..n :
                 h[r][c] = chalf(cadd(FourierEntry(k, w, r, c),
                                      conj(FourierEntry(k, w, c, r))))
           /\ IntegerPhases(k, w) =>
                 \A r, c \in 1..n :
                     h[r][c] = chalf(cadd(PlainEntry(w, r, c),
                                          conj(PlainEntry(w, c, r))))
           /\ FourierHermitian(k, w) =>
                 \A r, c \in 1..n : h[r][c] = FourierEntry(k, w, r, c)

\* A call at k = (1, 0, 0), not the origin, with a lattice vector whose
\* product with k is the integer 1, on a 2 x 2 Hamiltonian whose plain sum is
\* not Hermitian.
C12_Witness ==
    /\ hkout.called
    /\ hkin.k = <<4, 0, 0>>
    /\ hkin.w.nwan = 2
    /\ Len(hkin.w.R) = 2
    /\ \E i \in 1..2 : hkin.w.R[i] = <<1, 0, -1>>
    /\ PlainEntry(hkin.w, 1, 2) # conj(PlainEntry(hkin.w, 2, 1))
    /\ hkout.hk[1][2] # PlainEntry(hkin.w, 1, 2)

(***************************************************************************)
(* outputs.py: class JDOS, lines 108-191 (select_jdos).                    *)
(* Python counts positions from 0, the sequences here from 1: a 0-based    *)
(* position i is the element i + 1, and the position -1 is the last one.   *)
(* The grid-point indices (values of the mapping, parts of the file names) *)
(* keep their 0-based values.                                              *)
(***************************************************************************)
\* The largest number of branches (columns of mesh_dict["frequencies"]).
MaxBranches == 2
\* The number of rows (tabulated frequency points) of a jdos-*.dat file.
NFreqRows == 3

\* self.mesh: three grid points.
JdosMesh == <<1, 1, 3>>

\* The tabulated frequencies of every jdos file: 10, 20, ...
JdosFreq == [r \in 1..NFreqRows |-> 10 * r]
\* Branch frequencies: below the table, inside it and at its last point.
BranchFreqs == {5, 15, 10 * NFreqRows}

\* The frequencies of the nb branches of one q-point, as phonopy holds them
\* in mesh_dict["frequencies"]: in ascending order.
BranchRows(nb) ==
    {row \in [1..nb -> BranchFreqs] : \A b \in 1..(nb - 1) : row[b] <= row[b + 1]}

\* The name select_jdos builds at lines 162-180, as its pieces.
jdos_file_name(mesh, gp, temperature) ==
    <<"jdos-m">> \o mesh \o <<"-g", gp>>
       \o (IF temperature # None THEN <<"-t", temperature.val>> ELSE <<>>)
       \o <<".dat">>

\* The rows [frequency, N1 column, N2 column] phono3py wrote for grid point
\* gp; the weighted files (-t) hold other numbers than the unweighted ones.
JdosTable(gp, temperature) ==
    [r \in 1..NFreqRows |->
        <<JdosFreq[r],
          20 * gp + 2 * r + (IF temperature # None THEN 200 ELSE 0),
          2 * r * r>>]

\* np.unique: the distinct values in ascending order.
RECURSIVE sorted(_)
sorted(S) == IF S = {} THEN <<>> ELSE <<Min(S)>> \o sorted(S \ {Min(S)})
unique(list) == sorted({list[i] : i \in 1..Len(list)})

\* np.digitize(x, bins) for increasing bins: the 0-based i with
\* bins[i-1] <= x < bins[i]; 0 below the first bin, len(bins) from the
\* last one on.
digitize(x, bins) == Cardinality({j \in 1..Len(bins) : bins[j] <= x})

\* Line 189: (N2[i] + N2[i - 1]) / 2 for the 0-based i digitize returned.
\* N2[len(N2)] is an IndexError; N2[-1], for i = 0, is the last element.
bin_average(N2, i) ==
    IF i + 1 > Len(N2)
    THEN [exc |-> "IndexError", val |-> 0]
    ELSE [exc |-> "none",
          val |-> (N2[i + 1] + N2[IF i = 0 THEN Len(N2) ELSE i]) \div 2]

\* Lines 160-190 for the g-th (0-based: g - 1) irreducible grid point gp:
\* the row of jdos_ir, or the exception that ends the call.
select_row(self, g, gp) ==
    LET file == jdos_file_name(self.mesh, gp, self.temperature)
    IN IF file \notin DOMAIN self.directory
       THEN [exc |-> "OSError", row |-> <<>>]
       ELSE LET data == self.directory[file]
                freq == [r \in 1..Len(data) |-> data[r][1]]
                N2 == [r \in 1..Len(data) |-> data[r][2] + data[r][3]]
                fs == self.frequencies[g]
                avg == [b \in 1..Len(fs) |->
                           bin_average(N2, digitize(fs[b], freq))]
            IN IF \E b \in 1..Len(fs) : avg[b].exc # "none"
               THEN [exc |-> "IndexError", row |-> <<>>]
               ELSE [exc |-> "none", row |-> [b \in 1..Len(fs) |-> avg[b].val]]

\* The loop of line 160 from the g-th grid point on; acc holds the rows
\* written so far.
RECURSIVE select_loop(_, _, _, _)
select_loop(self, uids, g, acc) ==
    IF g > Len(uids)
    THEN [outcome |-> "return", exc |-> "none", ret |-> acc]
    ELSE LET r == select_row(self, g, uids[g])
         IN IF r.exc # "none"
            THEN [outcome |-> "raise", exc |-> r.exc, ret |-> None]
            ELSE select_loop(self, uids, g + 1, Append(acc, r.row))

\* JDOS.select_jdos(), lines 130-191.
select_jdos(self) == select_loop(self, unique(self.mapping), 1, <<>>)

\* The files phono3py left in the directory for the grid points gps.
JdosDirectory(mesh, gps, temperature) ==
    [name \in {jdos_file_name(mesh, gp, temperature) : gp \in gps} |->
        JdosTable((CHOOSE gp \in gps :
                      name = jdos_file_name(mesh, gp, temperature)),
                  temperature)]

(***************************************************************************)
(* outputs.py: JDOS.get_gv_outer_product, mode_to_spectral_wtd,             *)
(* mode_to_spectral_unwtd and mode_to_spectral, lines 193-290.             *)
(* The tetrahedron mesh of phonopy yields, for each irreducible            *)
(* q-point i of the mesh the total DOS was built on, the integration       *)
(* weights iw[j][b] of band b at frequency point j; they are contributions *)
(* to a density of states, never negative.  get_gv_outer_product makes the *)
(* phonopy object run another mesh; the next run_total_dos() builds the    *)
(* DOS on that mesh.                                                       *)
(* Modal properties and weights are integers; a quotient is kept as the    *)
(* pair of its numerator and denominator.                                  *)
(***************************************************************************)
\* The number of frequency points of the total DOS.
NSpectralPoints == 2

\* np.ones_like(mode_prop)
ones_like(mode_prop) ==
    [i \in 1..Len(mode_prop) |-> [b \in 1..Len(mode_prop[i]) |-> 1]]

\* The sum of f[1], ..., f[n] of integers.
RECURSIVE isum(_, _)
isum(f, n) == IF n = 0 THEN 0 ELSE isum(f, n - 1) + f[n]

\* Line 261-263 for q-point i: np.sum(iw * mode_prop[i] * weights[i], axis=1).
wtd_term(self, mode_prop, i) ==
    [j \in 1..Len(self.iw[i]) |->
        isum([b \in 1..Len(mode_prop[i]) |->
                 self.iw[i][j][b] * mode_prop[i][b] * self.weights[i]],
             Len(mode_prop[i]))]

\* phonopy's run_total_dos(), lines 253 and 271: the total DOS, with its
\* frequency points, integration weights and multiplicities, is built anew
\* on the mesh the phonopy object ran last.
run_total_dos(self) ==
    [self EXCEPT !.iw = self.lib[self.phonopy_mesh].iw,
                 !.weights = self.lib[self.phonopy_mesh].weights,
                 !.frequency_points =
                     self.lib[self.phonopy_mesh].frequency_points]

\* phonopy's run_mesh(mesh, with_group_velocities=True), line 210: the
\* phonopy object holds the q-points and group velocities of this mesh from
\* now on; its total DOS stays the one built before.
run_mesh(self, mesh) ==
    [self EXCEPT !.phonopy_mesh = mesh,
                 !.group_velocities = self.lib[mesh].group_velocities]

\* The loop of line 260 from q-point i on.  thm yields one iw per q-point of
\* the DOS's mesh; mode_prop[i] is an IndexError when mode_prop has fewer
\* rows than that.
RECURSIVE wtd_loop(_, _, _, _)
wtd_loop(self, mode_prop, i, spectral_prop) ==
    IF i > Len(self.iw)
    THEN [outcome |-> "return", exc |-> "none", ret |-> spectral_prop]
    ELSE IF i > Len(mode_prop)
    THEN [outcome |-> "raise", exc |-> "IndexError", ret |-> None]
    ELSE wtd_loop(self, mode_prop, i + 1,
            [j \in 1..Len(spectral_prop) |->
                spectral_prop[j] + wtd_term(self, mode_prop, i)[j]])

\* JDOS.mode_to_spectral_wtd(mode_prop), lines 248-264: what it returns or
\* raises; it leaves the phonopy object as run_total_dos does.
mode_to_spectral_wtd(self, mode_prop) ==
    wtd_loop(run_total_dos(self), mode_prop, 1, [j \in 1..NSpectralPoints |-> 0])

\* Line 279 for q-point i: np.sum(iw * mode_prop[i], axis=1).
unwtd_term(self, mode_prop, i) ==
    [j \in 1..Len(self.iw[i]) |->
        isum([b \in 1..Len(mode_prop[i]) |->
                 self.iw[i][j][b] * mode_prop[i][b]],
             Len(mode_prop[i]))]

\* The loop of line 278 from q-point i on.
RECURSIVE unwtd_loop(_, _, _, _)
unwtd_loop(self, mode_prop, i, spectral_prop) ==
    IF i > Len(self.iw)
    THEN [outcome |-> "return", exc |-> "none", ret |-> spectral_prop]
    ELSE IF i > Len(mode_prop)
    THEN [outcome |-> "raise", exc |-> "IndexError", ret |-> None]
    ELSE unwtd_loop(self, mode_prop, i + 1,
            [j \in 1..Len(spectral_prop) |->
                spectral_prop[j] + unwtd_term(self, mode_prop, i)[j]])

\* JDOS.mode_to_spectral_unwtd(mode_prop), lines 266-280.
mode_to_spectral_unwtd(self, mode_prop) ==
    unwtd_loop(run_total_dos(self), mode_prop, 1,
               [j \in 1..NSpectralPoints |-> 0])

NaN == [tag |-> "nan"]
\* numpy's a / b on floats: 0/0 is nan, a/0 is inf with the sign of a.
divide(a, b) ==
    IF b # 0 THEN [tag |-> "ratio", num |-> a, den |-> b]
    ELSE IF a = 0 THEN NaN
    ELSE [tag |-> "inf", sign |-> IF a > 0 THEN 1 ELSE -1]

\* The conversion that divides by the number of q-points, not by the DOS.
mode_to_spectral_by_count(self, mode_prop) ==
    LET spectral_wtd == mode_to_spectral_wtd(self, mode_prop)
    IN IF spectral_wtd.outcome = "raise" THEN spectral_wtd
       ELSE [outcome |-> "return", exc |-> "none",
             ret |-> [j \in 1..Len(spectral_wtd.ret) |->
                         divide(spectral_wtd.ret[j],
                                Len(run_total_dos(self).iw))]]

\* JDOS.mode_to_spectral(mode_prop), lines 283-290.  The first call of
\* mode_to_spectral_wtd raises when mode_prop has too few rows; ones_like
\* has the rows of mode_prop, so the second call then returns as well.
mode_to_spectral(self, mode_prop) ==
    LET spectral_wtd == mode_to_spectral_wtd(self, mode_prop)
    IN IF spectral_wtd.outcome = "raise" THEN spectral_wtd
       ELSE LET dos == mode_to_spectral_wtd(run_total_dos(self),
                                            ones_like(mode_prop))
            IN [outcome |-> "return", exc |-> "none",
                ret |-> [j \in 1..Len(spectral_wtd.ret) |->
                            divide(spectral_wtd.ret[j], dos.ret[j])]]

\* The pairs of Cartesian components of line 243, counted from 1:
\* xx, yy, zz, yz, xz, xy.
VoigtPairs == <<<<1, 1>>, <<2, 2>>, <<3, 3>>, <<2, 3>>, <<1, 3>>, <<1, 2>>>>

\* JDOS.get_gv_outer_product(mesh), lines 193-245, for a crystal whose point
\* group holds the identity alone: the one rotation leaves gv as it is,
\* rotation_map has the one grid point and line 240 divides by 1 // 1.
\* obj is the object after the call, ret the array gv_sum2.
get_gv_outer_product(self, mesh) ==
    LET s == run_mesh(self, mesh)
        gv == s.group_velocities
        nbranches == Len(gv[1])
    IN [obj |-> s,
        ret |-> [qindx \in 1..Len(gv) |-> [b \in 1..nbranches |->
                    [j \in 1..Len(VoigtPairs) |->
                        divide(gv[qindx][b][VoigtPairs[j][1]]
                                  * gv[qindx][b][VoigtPairs[j][2]],
                               nbranches)]]]]

\* The meshes get_gv_outer_product is called with: its default, one with
\* two q-points, and self.mesh (as kappa_from_linewidth does at line 337).
GvMeshes == {<<1, 1, 1>>, <<1, 1, 2>>, JdosMesh}

\* The frequency points of the total DOS phonopy builds on a mesh: from the
\* lowest frequency of the mesh, 0 at Gamma, to the highest one.
LibFrequencyPoints(mesh) ==
    [j \in 1..NSpectralPoints |-> 5 * mesh[3] * (j - 1)]

\* The group velocity phonopy holds for band b of q-point i.
LibGv(nq, nb) == [i \in 1..nq |-> [b \in 1..nb |-> <<i, b, i - b>>]]

\* What phonopy computes on the meshes other than self.mesh for nb bands:
\* the mesh [1, 1, 1] has the q-point Gamma alone, the mesh [1, 1, 2] has
\* two q-points, each counted once.
OtherMesh(mesh, nb) ==
    IF mesh = <<1, 1, 1>>
    THEN [iw |-> [i \in 1..1 |-> [j \in 1..NSpectralPoints |->
                     [b \in 1..nb |-> (j + b) % 2]]],
          weights |-> <<1>>,
          frequency_points |-> LibFrequencyPoints(mesh),
          group_velocities |-> LibGv(1, nb)]
    ELSE [iw |-> [i \in 1..2 |-> [j \in 1..NSpectralPoints |->
                     [b \in 1..nb |-> IF j = 1 THEN i ELSE 0]]],
          weights |-> <<1, 1>>,
          frequency_points |-> LibFrequencyPoints(mesh),
          group_velocities |-> LibGv(2, nb)]

\* JDOS.__init__, lines 122-128, with what the phonopy object and spglib
\* hold for it: the mapping of the grid points, the branch frequencies of the
\* irreducible q-points (self.mesh_dict, taken once), and in lib what
\* phonopy computes on each mesh: the integration weights, the
\* multiplicities, the frequency points of the total DOS and the group
\* velocities.  Lines 126-127 run the mesh
\* self.mesh and its total DOS.
JDOS(mesh, temperature, directory, mapping, frequencies, iw, weights) ==
    LET nb == Len(frequencies[1])
        own == [iw |-> iw, weights |-> weights,
                frequency_points |-> LibFrequencyPoints(mesh),
                group_velocities |-> LibGv(Len(iw), nb)]
    IN [mesh |-> mesh, temperature |-> temperature, directory |-> directory,
        mapping |-> mapping, frequencies |-> frequencies,
        lib |-> [m \in GvMeshes \cup {mesh} |->
                    IF m = mesh THEN own ELSE OtherMesh(m, nb)],
        phonopy_mesh |-> mesh,
        group_velocities |-> own.group_velocities,
        iw |-> iw, weights |-> weights,
        frequency_points |-> own.frequency_points]

(***************************************************************************)
(* outputs.py: JDOS.linewidth_from_jdos and kappa_from_linewidth, lines    *)
(* 293-366.  Their arrays hold floats that may be nan or infinite.  A      *)
(* finite float is the quotient num / den; the zero is num = 0 and carries *)
(* its sign in den, as 0.0 and -0.0 do.                                    *)
(***************************************************************************)
sgn(n) == IF n > 0 THEN 1 ELSE IF n < 0 THEN -1 ELSE 0
\* The float of the integer n.
fin(n) == [tag |-> "ratio", num |-> n, den |-> 1]
is_zero(x) == x.tag = "ratio" /\ x.num = 0
\* The sign bit of a float that is not nan: 1 or -1.
esign(x) ==
    IF x.tag = "inf" THEN x.sign
    ELSE IF x.num = 0 THEN sgn(x.den)
    ELSE sgn(x.num) * sgn(x.den)
\* x * y on floats: nan with a nan operand and for inf * 0.
emul(x, y) ==
    IF x = NaN \/ y = NaN THEN NaN
    ELSE IF x.tag = "inf" \/ y.tag = "inf"
    THEN IF is_zero(x) \/ is_zero(y) THEN NaN
         ELSE [tag |-> "inf", sign |-> esign(x) * esign(y)]
    ELSE [tag |-> "ratio", num |-> x.num * y.num,
          den |-> IF x.num * y.num = 0 THEN esign(x) * esign(y)
                  ELSE x.den * y.den]
\* numpy's 1 / x on floats: 1 / 0.0 is inf, 1 / -0.0 is -inf.
einv(x) ==
    IF x = NaN THEN NaN
    ELSE IF x.tag = "inf" THEN [tag |-> "ratio", num |-> 0, den |-> x.sign]
    ELSE IF x.num = 0 THEN [tag |-> "inf", sign |-> esign(x)]
    ELSE [tag |-> "ratio", num |-> x.den, den |-> x.num]
\* x / n on floats for an integer n > 0.
over(x, n) ==
    IF x = NaN \/ x.tag = "inf" \/ x.num = 0 THEN x
    ELSE [tag |-> "ratio", num |-> x.num, den |-> x.den * n]

\* JDOS.linewidth_from_jdos(spectral_jdos, atoms, vs, grun, T), lines
\* 293-326.  scale is the number lines 313-319 compute from the arguments
\* and the atomic masses, prefactor * (grun ** 2 / (avgM * vs ** 2)); the
\* frequency points are those of the total DOS as it stands, which the
\* method does not run anew.  Line 319 multiplies from the left:
\* (scale * freq_pts ** 2) * spectral_jdos.
linewidth_from_jdos(self, spectral_jdos, scale) ==
    [j \in 1..Len(self.frequency_points) |->
        emul(emul(fin(scale),
                  fin(self.frequency_points[j] * self.frequency_points[j])),
             spectral_jdos[j])]

\* ij_dict of line 332, with the positions counted from 1.
ij_dict == [xx |-> 1, yy |-> 2, zz |-> 3, yz |-> 4, xz |-> 5, xy |-> 6]

\* JDOS.kappa_from_linewidth(spectral_2Gamma, component, T), lines 328-366,
\* with spectral_Cp the array get_spectral_heat_capacity returns at line
\* 340.  Line 337 runs self.mesh on the phonopy object, line 338 raises
\* KeyError for a component ij_dict does not hold, line 339 runs the total
\* DOS.  The modal squared velocities are quotients by the number of
\* branches: their sums are the sums of the numerators over that number.
\* The result is in units of kappa_unit_conversion (line 350, multiplied
\* from the left); obj is the object after the call.  The imported
\* get_spectral_heat_capacity is taken to return its array and to leave
\* the mesh and the total DOS of the phonopy object as they are.
kappa_from_linewidth(self, spectral_2Gamma, component, spectral_Cp) ==
    LET gv == get_gv_outer_product(self, self.mesh)
    IN IF component \notin DOMAIN ij_dict
       THEN [obj |-> gv.obj, outcome |-> "raise", exc |-> "KeyError",
             ret |-> None]
       ELSE LET mode_vg2 == gv.ret
                nbranches == Len(mode_vg2[1])
                numerators ==
                    [i \in 1..Len(mode_vg2) |-> [b \in 1..nbranches |->
                        mode_vg2[i][b][ij_dict[component]].num]]
                r == mode_to_spectral(gv.obj, numerators)
            IN IF r.outcome = "raise"
               THEN [obj |-> run_total_dos(gv.obj), outcome |-> "raise",
                     exc |-> r.exc, ret |-> None]
               ELSE LET spectral_vg2 ==
                            [j \in 1..Len(r.ret) |-> over(r.ret[j], nbranches)]
                    IN [obj |-> run_total_dos(gv.obj),
                        outcome |-> "return", exc |-> "none",
                        ret |-> [j \in 1..Len(spectral_vg2) |->
                                    emul(emul(spectral_vg2[j],
                                              einv(spectral_2Gamma[j])),
                                         fin(spectral_Cp[j]))]]

\* The values of prefactor * (grun ** 2 / (avgM * vs ** 2)).
LinewidthScales == {2}
\* The spectral JDOS handed to linewidth_from_jdos when it is not the array
\* mode_to_spectral just returned.
GivenSpectralJdos == [j \in 1..NSpectralPoints |-> fin(j)]
\* The linewidths handed to kappa_from_linewidth when they are not the
\* array linewidth_from_jdos just returned: nan at the first point.
GivenSpectral2Gamma ==
    [j \in 1..NSpectralPoints |-> IF j = 1 THEN NaN ELSE fin(j)]
\* The components kappa_from_linewidth is called with; ij_dict has no "zx".
Components == {"xx", "zx"}
\* What get_spectral_heat_capacity(self.phonopy_obj, self.mesh, T,
\* weighted=False, plot=True) returns at line 340: one heat capacity per
\* frequency point.
SpectralCp == [j \in 1..NSpectralPoints |-> j]

\* The weights of one band over the frequency points: none, one point, or
\* two neighbouring points.
WeightProfiles ==
    {[j \in 1..NSpectralPoints |-> IF j \in from..(from + len - 1) THEN 1 ELSE 0] :
        from \in 1..NSpectralPoints, len \in 0..2}
\* iw[i][j][b] from the profile of each (q-point, band).
IwOf(prof, nq, nb) ==
    [i \in 1..nq |-> [j \in 1..NSpectralPoints |-> [b \in 1..nb |-> prof[i][b][j]]]]
DefaultIw(nq, nb) ==
    [i \in 1..nq |-> [j \in 1..NSpectralPoints |->
        [b \in 1..nb |-> (i + j + b) % 2]]]

\* The modal properties handed to mode_to_spectral: the same constant for
\* every mode, or one that differs from mode to mode.
VaryingModeProps(nq, nb) ==
    {[i \in 1..nq |-> [b \in 1..nb |-> IF i = 1 THEN 10 + b ELSE -b]]}
ModeProps(nq, nb) ==
    {[i \in 1..nq |-> [b \in 1..nb |-> c]] : c \in {-1, 2}}
    \cup VaryingModeProps(nq, nb)

NoJdosCall ==
    [op |-> "-", arg |-> <<>>, outcome |-> "-", exc |-> "none", ret |-> None]

\* The branch frequencies of the q-points: those of the first one are row,
\* those of a second one are row read from its far end, with the lowest and
\* the highest of BranchFreqs exchanged.
FrequenciesOf(row, nq) ==
    LET lowest == Min(BranchFreqs)
        highest == 10 * NFreqRows
        mirror(f) == IF f = lowest THEN highest
                     ELSE IF f = highest THEN lowest ELSE f
    IN [g \in 1..nq |->
           IF g = 1 THEN row
           ELSE [b \in 1..Len(row) |-> mirror(row[Len(row) + 1 - b])]]

\* The multiplicities of the irreducible q-points: how many grid points
\* the mapping sends to each.
multiplicities(mapping) ==
    LET uids == unique(mapping)
    IN [i \in 1..Len(uids) |->
           Cardinality({n \in 1..Len(mapping) : mapping[n] = uids[i]})]

\* The objects select_jdos is run on: the mapping
\* spglib.get_ir_reciprocal_mesh(...)[0] of the grid points to their
\* irreducible representatives, the temperature, and the irreducible grid
\* points (by position) whose file is missing.
JdosCases ==
    {[mapping |-> <<0, 0, 0>>, t |-> None, missing |-> {}],
     [mapping |-> <<0, 1, 1>>, t |-> None, missing |-> {}],
     [mapping |-> <<0, 1, 0>>, t |-> None, missing |-> {2}],
     [mapping |-> <<0, 0, 2>>, t |-> [tag |-> "int", val |-> 300],
      missing |-> {}],
     [mapping |-> <<0, 1, 1>>, t |-> [tag |-> "int", val |-> 300],
      missing |-> {}]}

\* Either the directory, mapping and branch frequencies vary (for
\* select_jdos), or the integration weights and multiplicities do (for
\* mode_to_spectral).
InitJdos ==
    /\ \/ \E c \in JdosCases, nb \in 1..MaxBranches :
          \E row \in BranchRows(nb) :
             LET uids == unique(c.mapping)
                 gps == {uids[g] : g \in (1..Len(uids)) \ c.missing}
             IN jobj = JDOS(JdosMesh, c.t,
                            JdosDirectory(JdosMesh, gps, c.t),
                            c.mapping, FrequenciesOf(row, Len(uids)),
                            DefaultIw(Len(uids), nb),
                            multiplicities(c.mapping))
       \/ \E fr \in {<<15>>, <<15, 25>>} :
          \E prof1 \in [1..Len(fr) -> WeightProfiles] :
          \E prof2 \in {[j \in 1..NSpectralPoints |-> 0],
                         [j \in 1..NSpectralPoints |-> 1]} :
             jobj = JDOS(JdosMesh, None,
                         JdosDirectory(JdosMesh, {0, 1}, None),
                         <<0, 1, 1>>, <<fr, fr>>,
                         IwOf(<<prof1, [b \in 1..Len(fr) |-> prof2]>>,
                              2, Len(fr)),
                         multiplicities(<<0, 1, 1>>))
    /\ jres = NoJdosCall
    /\ IdleFigshare
    /\ IdleKappa
    /\ IdleHk
    /\ IdleInputs

\* The rows and columns of a modal property of self.mesh: one row per
\* irreducible q-point of that mesh, one column per branch.
OwnModeProps(self) ==
    ModeProps(Len(self.frequencies), Len(self.frequencies[1]))

\* The methods are called in any order, any number of times.
\* A call self.select_jdos(); the method assigns nothing to self and does
\* not touch the phonopy object's mesh: it reads self.mesh, the mapping
\* spglib computes for it and self.mesh_dict, also after the phonopy object
\* ran another mesh.
CallSelectJdos ==
    /\ LET r == select_jdos(jobj)
       IN jres' = [op |-> "select_jdos", arg |-> <<>>, outcome |-> r.outcome,
                   exc |-> r.exc, ret |-> r.ret]
    /\ UNCHANGED jobj
    /\ UNCHANGED nonJdosVars

\* A call self.get_gv_outer_product(mesh): the phonopy object runs mesh.
CallGetGvOuterProduct ==
    /\ \E mesh \in GvMeshes :
          LET r == get_gv_outer_product(jobj, mesh)
          IN /\ jobj' = r.obj
             /\ jres' = [op |-> "get_gv_outer_product", arg |-> mesh,
                         outcome |-> "return", exc |-> "none", ret |-> r.ret]
    /\ UNCHANGED nonJdosVars

\* A call self.mode_to_spectral(mode_prop): of a modal property of
\* self.mesh or, as the test script does, of the array select_jdos just
\* returned.  Each call of mode_to_spectral_wtd in it runs the total DOS
\* anew.
CallModeToSpectral ==
    /\ \E p \in OwnModeProps(jobj)
                \cup (IF jres.op = "select_jdos" /\ jres.outcome = "return"
                      THEN {jres.ret} ELSE {}) :
          LET r == mode_to_spectral(jobj, p)
          IN jres' = [op |-> "mode_to_spectral", arg |-> p,
                      outcome |-> r.outcome, exc |-> r.exc, ret |-> r.ret]
    /\ jobj' = run_total_dos(jobj)
    /\ UNCHANGED nonJdosVars

\* A call self.mode_to_spectral_wtd(mode_prop).
CallModeToSpectralWtd ==
    /\ \E p \in VaryingModeProps(Len(jobj.frequencies),
                                  Len(jobj.frequencies[1])) :
          LET r == mode_to_spectral_wtd(jobj, p)
          IN jres' = [op |-> "mode_to_spectral_wtd", arg |-> p,
                      outcome |-> r.outcome, exc |-> r.exc, ret |-> r.ret]
    /\ jobj' = run_total_dos(jobj)
    /\ UNCHANGED nonJdosVars

\* A call self.mode_to_spectral_unwtd(mode_prop).
CallModeToSpectralUnwtd ==
    /\ \E p \in VaryingModeProps(Len(jobj.frequencies),
                                  Len(jobj.frequencies[1])) :
          LET r == mode_to_spectral_unwtd(jobj, p)
          IN jres' = [op |-> "mode_to_spectral_unwtd", arg |-> p,
                      outcome |-> r.outcome, exc |-> r.exc, ret |-> r.ret]
    /\ jobj' = run_total_dos(jobj)
    /\ UNCHANGED nonJdosVars

\* A call self.linewidth_from_jdos(spectral_jdos, atoms, vs, grun, T): of
\* the array mode_to_spectral just returned (as the test script does), or
\* of a given one.  The method assigns nothing and runs nothing.
CallLinewidthFromJdos ==
    /\ \E scale \in LinewidthScales :
       \E spectral_jdos \in
             IF jres.op = "mode_to_spectral" /\ jres.outcome = "return"
             THEN {jres.ret} ELSE {GivenSpectralJdos} :
          jres' = [op |-> "linewidth_from_jdos",
                   arg |-> <<spectral_jdos, scale>>,
                   outcome |-> "return", exc |-> "none",
                   ret |-> linewidth_from_jdos(jobj, spectral_jdos, scale)]
    /\ UNCHANGED jobj
    /\ UNCHANGED nonJdosVars

\* A call self.kappa_from_linewidth(spectral_2Gamma, component): of the
\* array linewidth_from_jdos just returned (as the test script does), or of
\* a given one.
CallKappaFromLinewidth ==
    /\ \E component \in Components :
       \E spectral_2Gamma \in
             IF jres.op = "linewidth_from_jdos" THEN {jres.ret}
             ELSE {GivenSpectral2Gamma} :
          LET r == kappa_from_linewidth(jobj, spectral_2Gamma, component,
                                        SpectralCp)
          IN /\ jobj' = r.obj
             /\ jres' = [op |-> "kappa_from_linewidth",
                         arg |-> component,
                         outcome |-> r.outcome, exc |-> r.exc, ret |-> r.ret]
    /\ UNCHANGED nonJdosVars

NextJdos ==
    \/ CallSelectJdos
    \/ CallGetGvOuterProduct
    \/ CallModeToSpectral
    \/ CallModeToSpectralWtd
    \/ CallModeToSpectralUnwtd
    \/ CallLinewidthFromJdos
    \/ CallKappaFromLinewidth

SpecJdos == InitJdos /\ [][NextJdos]_vars

\* The file of the g-th irreducible grid point exists for every g.
AllJdosFiles(self) ==
    \A g \in 1..Len(unique(self.mapping)) :
        jdos_file_name(self.mesh, unique(self.mapping)[g], self.temperature)
            \in DOMAIN self.directory
\* The position lo of the table such that the points lo and lo + 1 bracket
\* f: freq[lo] <= f < freq[lo + 1] inside the table, the first pair below it
\* and the last pair from the last point on.
BracketLo(f, freq) ==
    LET below == {j \in 1..Len(freq) : freq[j] <= f}
    IN IF below = {} THEN 1
       ELSE IF Cardinality(below) = Len(freq) THEN Len(freq) - 1
       ELSE Cardinality(below)
\* N2 of the table of grid point gp at row r.
N2At(self, gp, r) ==
    LET data == JdosTable(gp, self.temperature) IN data[r][2] + data[r][3]

\* C13: select_jdos returns one row per irreducible grid point and one
\* column per branch, and the entry of branch frequency f is the average of
\* N2 at the two neighbouring tabulated points that bracket f, also for f
\* below the first tabulated frequency and for f at or above the last one.
C13_BracketAverage ==
    (jres.op = "select_jdos" /\ AllJdosFiles(jobj)) =>
        LET uids == unique(jobj.mapping)
        IN /\ jres.outcome = "return"
           /\ Len(jres.ret) = Len(uids)
           /\ \A g \in 1..Len(uids) :
                 /\ Len(jres.ret[g]) = Len(jobj.frequencies[g])
                 /\ \A b \in 1..Len(jobj.frequencies[g]) :
                       LET lo == BracketLo(jobj.frequencies[g][b], JdosFreq)
                       IN 2 * jres.ret[g][b] =
                             N2At(jobj, uids[g], lo) + N2At(jobj, uids[g], lo + 1)

\* C13, the part the code satisfies: when every branch frequency lies
\* inside the table (first point <= f < last point), the result has the
\* stated shape and entries.
C13_InsideTable ==
    (/\ jres.op = "select_jdos"
     /\ AllJdosFiles(jobj)
     /\ \A g \in 1..Len(jobj.frequencies) :
           \A b \in 1..Len(jobj.frequencies[g]) :
              /\ JdosFreq[1] <= jobj.frequencies[g][b]
              /\ jobj.frequencies[g][b] < JdosFreq[Len(JdosFreq)]) =>
        LET uids == unique(jobj.mapping)
        IN /\ jres.outcome = "return"
           /\ Len(jres.ret) = Len(uids)
           /\ \A g \in 1..Len(uids) :
                 /\ Len(jres.ret[g]) = Len(jobj.frequencies[g])
                 /\ \A b \in 1..Len(jobj.frequencies[g]) :
                       LET lo == BracketLo(jobj.frequencies[g][b], JdosFreq)
                       IN 2 * jres.ret[g][b] =
                             N2At(jobj, uids[g], lo) + N2At(jobj, uids[g], lo + 1)

\* The DOS-weighted sum of the modal property p at frequency point j,
\* written as one double sum over q-points and bands.
SpectralSum(self, p, j) ==
    isum([i \in 1..Len(self.iw) |->
             isum([b \in 1..Len(p[i]) |->
                      self.weights[i] * self.iw[i][j][b] * p[i][b]],
                  Len(p[i]))],
         Len(self.iw))
\* The DOS at frequency point j: the sum of all weights there.
DosAt(self, j) ==
    isum([i \in 1..Len(self.iw) |->
             isum([b \in 1..Len(self.iw[i][j]) |->
                      self.weights[i] * self.iw[i][j][b]],
                  Len(self.iw[i][j]))],
         Len(self.iw))
\* p has the same value for every mode.
IsConstantProp(p) ==
    \A i \in 1..Len(p) : \A b \in 1..Len(p[i]) : p[i][b] = p[1][1]

\* C14: mode_to_spectral(p) is, frequency point by frequency point, the
\* DOS-weighted sum of p divided by the DOS; for p constant c it is c
\* wherever the DOS is non-zero; it is NaN exactly where the DOS is zero.
\* The DOS is the one the call builds, on the mesh the phonopy object ran
\* last; the call fails only when p has fewer rows than that mesh has
\* q-points.
C14_NormalizedByDos ==
    jres.op = "mode_to_spectral" =>
        LET p == jres.arg
            r == jres.ret
        IN /\ jobj.iw = jobj.lib[jobj.phonopy_mesh].iw
           /\ jobj.weights = jobj.lib[jobj.phonopy_mesh].weights
           /\ (jres.outcome = "raise") <=> (Len(p) < Len(jobj.iw))
           /\ jres.outcome = "raise" => jres.exc = "IndexError"
           /\ jres.outcome = "return" =>
                 /\ Len(r) = NSpectralPoints
                 /\ \A j \in 1..Len(r) :
                       /\ (r[j] = NaN) <=> (DosAt(jobj, j) = 0)
                       /\ DosAt(jobj, j) # 0 =>
                             /\ r[j].tag = "ratio"
                             /\ r[j].den # 0
                             /\ r[j].num * DosAt(jobj, j) =
                                   SpectralSum(jobj, p, j) * r[j].den
                             /\ IsConstantProp(p) =>
                                   r[j].num = p[1][1] * r[j].den

\* The property 2 for every mode of self.mesh, on an object whose second
\* q-point counts twice, after get_gv_outer_product() ran its default mesh:
\* the DOS is that of the one q-point of the new mesh, and the result is NaN
\* at a frequency point without weights and 2 at one with weights.
C14_Witness ==
    /\ jres.op = "mode_to_spectral"
    /\ jres.outcome = "return"
    /\ IsConstantProp(jres.arg)
    /\ jres.arg[1][1] = 2
    /\ jobj.phonopy_mesh = <<1, 1, 1>>
    /\ jobj.lib[jobj.mesh].weights = <<1, 2>>
    /\ jobj.weights = <<1>>
    /\ \E j \in 1..NSpectralPoints : jres.ret[j] = NaN
    /\ \E j \in 1..NSpectralPoints :
          /\ jres.ret[j] # NaN
          /\ jres.ret[j].num = 2 * jres.ret[j].den
          /\ \E b \in 1..Len(jobj.iw[1][j]) : jobj.iw[1][j][b] # 0

(***************************************************************************)
(* inputs.py: prepare_jdos (lines 13-78) and prepare_gruneisen_FC3 (lines  *)
(* 104-167).  A command string is the sequence of its pieces: the words of *)
(* the literals, the texts of the numbers, and, each a piece of its own,   *)
(* the blank SP and the double quote Q.                                    *)
(***************************************************************************)
SP == " "
Q == "\""

\* str(n) for the integers the calls are given.
str(n) ==
    CASE n = 0 -> "0"
      [] n = 1 -> "1"
      [] n = 2 -> "2"
      [] n = 3 -> "3"
      [] n = 4 -> "4"
      [] n = 100 -> "100"
      [] n = 201 -> "201"
      [] n = 300 -> "300"

\* " ".join([str(d) for d in list])
RECURSIVE join_str(_)
join_str(list) ==
    IF list = <<>> THEN <<>>
    ELSE IF Len(list) = 1 THEN <<str(list[1])>>
    ELSE <<str(list[1]), SP>> \o join_str(Tail(list))

\* Lines 53-65: the command without --ts and --pa.
jdos_base_cmd(dim, mesh, poscar, gridpt_uids, num_freq_points) ==
    <<"phono3py", SP, "--fc2", SP, "--dim=", Q>>
       \o join_str(dim)
       \o <<Q, SP, "--mesh=", Q>>
       \o join_str(mesh)
       \o <<Q, SP, "-c", SP>>
       \o <<poscar>>
       \o <<SP, "--jdos">>
       \o <<SP, "--gp=", Q>>
       \o join_str(gridpt_uids)
       \o <<Q, SP, "--num-freq-points=">>
       \o <<str(num_freq_points)>>

\* Lines 67-70: '" --ts="' + the temperatures; nothing follows them.
jdos_ts(phono3py_cmd, temperatures) ==
    IF temperatures # None
    THEN phono3py_cmd \o <<Q, SP, "--ts=", Q>> \o join_str(temperatures.val)
    ELSE phono3py_cmd

\* Lines 72-73: ' --pa= "' + the axes + '"'.
jdos_pa(phono3py_cmd, pa) ==
    IF pa # None
    THEN phono3py_cmd \o <<SP, "--pa=", SP, Q>> \o join_str(pa.val) \o <<Q>>
    ELSE phono3py_cmd

\* prepare_jdos, lines 46-73: the command it prints.  mapping is what
\* spglib.get_ir_reciprocal_mesh returns, dim is phonopy_obj.scell_dim.
prepare_jdos_cmd(a) ==
    jdos_pa(jdos_ts(jdos_base_cmd(a.dim, a.mesh, a.poscar, unique(a.mapping),
                                  a.num_freq_points),
                    a.temperatures),
            a.pa)

\* str(x) for the float x = h / 2 of a k-point coordinate.
str_half(h) ==
    CASE h = 0 -> "0.0"
      [] h = 1 -> "0.5"
      [] h = 2 -> "1.0"

\* Lines 148-158: every k-point as "k0 k1 k2" followed by two blanks.
RECURSIVE band_lines(_)
band_lines(all_kp) ==
    IF all_kp = <<>> THEN <<>>
    ELSE <<str_half(all_kp[1][1]), SP, str_half(all_kp[1][2]), SP,
           str_half(all_kp[1][3]), SP, SP>> \o band_lines(Tail(all_kp))

\* Lines 134-143: the command before the band or mesh option.
fc3_base_cmd(dim, poscar, nac) ==
    <<"phono3py", SP, "--fc3", SP, "--fc2", SP, "--dim=", Q>>
       \o join_str(dim)
       \o <<Q, SP, "-v", SP, "-c", SP>>
       \o <<poscar>>
       \o <<SP, "--gruneisen">>
       \o (IF nac THEN <<SP, "--nac">> ELSE <<>>)

\* The command that carries the mesh also in a band calculation.
fc3_cmd_always_mesh(a) ==
    fc3_base_cmd(a.dim, a.poscar, a.nac)
       \o (IF a.band_calc
           THEN <<SP, "--band=", Q>> \o band_lines(a.all_kp) \o <<Q>>
           ELSE <<>>)
       \o <<SP, "--mesh=", Q>> \o join_str(a.mesh) \o <<Q>>

\* prepare_gruneisen_FC3, lines 133-165: the command it prints.  all_kp is
\* what Kpoints3D().kpath(atoms, line_density)._kpoints holds.
prepare_gruneisen_FC3_cmd(a) ==
    fc3_base_cmd(a.dim, a.poscar, a.nac)
       \o (IF a.band_calc
           THEN <<SP, "--band=", Q>> \o band_lines(a.all_kp) \o <<Q>>
           ELSE <<SP, "--mesh=", Q>> \o join_str(a.mesh) \o <<Q>>)

(***************************************************************************)
(* inputs.py: prepare_gruneisen_quasiharmonic, lines 84-101.  A file is    *)
(* the sequence of its lines (what read().splitlines() yields) and whether *)
(* its text ends with a newline.  A float is kept in quarters (q = 4 x);   *)
(* the scale factors are powers of two, so products and quotients are      *)
(* exact, in the code as here.                                             *)
(***************************************************************************)
\* The largest scale factor (in quarters) the file of a call may hold.
MaxScaleQ == 16

NoFile == [exists |-> FALSE, lines |-> <<>>, nl |-> FALSE]
TextFile(lines, nl) == [exists |-> TRUE, lines |-> lines, nl |-> nl]

\* float(text), in quarters; -1 stands for the ValueError of a text that is
\* no number.
float(text) ==
    CASE text \in {"0.25"} -> 1
      [] text \in {"0.5"} -> 2
      [] text \in {"1.0", "1"} -> 4
      [] text \in {"2.0", "2"} -> 8
      [] text \in {"4.0", "4"} -> 16
      [] text \in {"8.0"} -> 32
      [] text \in {"16.0"} -> 64
      [] text \in {"32.0"} -> 128
      [] text \in {"64.0"} -> 256
      [] OTHER -> -1

\* str(x) of a float given in quarters.
str_float(q) ==
    CASE q = 1 -> "0.25"
      [] q = 2 -> "0.5"
      [] q = 4 -> "1.0"
      [] q = 8 -> "2.0"
      [] q = 16 -> "4.0"
      [] q = 32 -> "8.0"
      [] q = 64 -> "16.0"
      [] q = 128 -> "32.0"
      [] q = 256 -> "64.0"

PoscarPlus == "POSCAR-plus"
PoscarMinus == "POSCAR-minus"
PoscarUnitcell == "POSCAR-unitcell"
DiskNames == {PoscarUnitcell, PoscarPlus, PoscarMinus}

\* open(name, "w") ... writelines("\n".join(pos_text)): the file is
\* replaced, and its text ends without a newline.
write_lines(fs, name, pos_text) ==
    [fs EXCEPT ![name] = TextFile(pos_text, FALSE)]

QhResult(outcome, exc, fs) == [outcome |-> outcome, exc |-> exc, disk |-> fs]

\* The function with scale_minus taken from the line already overwritten
\* with scale_plus.
quasiharmonic_from_written(fs, orig_poscar, scale) ==
    IF ~fs[orig_poscar].exists THEN QhResult("raise", "FileNotFoundError", fs)
    ELSE LET pos_text == fs[orig_poscar].lines
         IN IF Len(pos_text) < 2 THEN QhResult("raise", "IndexError", fs)
            ELSE IF float(pos_text[2]) < 0 THEN QhResult("raise", "ValueError", fs)
            ELSE LET scale_plus == float(pos_text[2]) * scale
                     plus_text == [pos_text EXCEPT ![2] = str_float(scale_plus)]
                     fs1 == write_lines(fs, PoscarPlus, plus_text)
                     scale_minus == float(plus_text[2]) \div scale
                     minus_text == [plus_text EXCEPT ![2] = str_float(scale_minus)]
                 IN QhResult("return", "none",
                             write_lines(fs1, PoscarMinus, minus_text))

\* prepare_gruneisen_quasiharmonic(orig_poscar, scale), lines 90-101, on
\* the directory fs: the outcome and the directory it leaves.
prepare_gruneisen_quasiharmonic(fs, orig_poscar, scale) ==
    IF ~fs[orig_poscar].exists THEN QhResult("raise", "FileNotFoundError", fs)
    ELSE LET pos_text == fs[orig_poscar].lines
         IN IF Len(pos_text) < 2 THEN QhResult("raise", "IndexError", fs)
            ELSE IF float(pos_text[2]) < 0 THEN QhResult("raise", "ValueError", fs)
            ELSE LET scale_plus == float(pos_text[2]) * scale
                     scale_minus == float(pos_text[2]) \div scale
                     plus_text == [pos_text EXCEPT ![2] = str_float(scale_plus)]
                     fs1 == write_lines(fs, PoscarPlus, plus_text)
                     minus_text == [plus_text EXCEPT ![2] = str_float(scale_minus)]
                 IN QhResult("return", "none",
                             write_lines(fs1, PoscarMinus, minus_text))

\* The scale factors of the calls, and the calls whose products and
\* quotients are exact quarters within the table of str_float.
Scales == {2, 4}
InScaleRange(fs, orig_poscar, scale) ==
    (fs[orig_poscar].exists /\ Len(fs[orig_poscar].lines) >= 2
        /\ float(fs[orig_poscar].lines[2]) >= 0) =>
       /\ float(fs[orig_poscar].lines[2]) <= MaxScaleQ
       /\ float(fs[orig_poscar].lines[2]) % scale = 0

(***************************************************************************)
(* inputs.py: the calls.                                                   *)
(***************************************************************************)
List(val) == [tag |-> "list", val |-> val]
NoArgs == [none |-> TRUE]
NoInputCall ==
    [op |-> "-", args |-> NoArgs, cmd |-> <<>>, outcome |-> "-",
     exc |-> "none", pre |-> <<>>]

\* The arguments of prepare_jdos (scell_dim is never read).
JdosArgs ==
    [dim : {<<2, 2, 2>>},
     mesh : {JdosMesh},
     mapping : {<<0, 0, 0>>, <<0, 1, 1>>, <<0, 0, 2>>},
     poscar : {PoscarUnitcell},
     temperatures : {None, List(<<>>), List(<<300>>), List(<<100, 300>>)},
     num_freq_points : {201},
     pa : {None, List(<<0, 1, 1, 1, 0, 1, 1, 1, 0>>)},
     run : BOOLEAN]

\* The arguments of prepare_gruneisen_FC3, and the k-points the k-path of
\* the structure holds.
Fc3Args ==
    [dim : {<<2, 2, 2>>, <<1, 1, 2>>},
     poscar : {PoscarUnitcell, PoscarPlus},
     band_calc : BOOLEAN,
     all_kp : {<< <<0, 0, 0>>, <<1, 0, 1>> >>},
     mesh : {<<1, 1, 1>>, <<2, 2, 2>>},
     nac : BOOLEAN,
     run : BOOLEAN]

\* The working directory before the first call: the structure file, whose
\* second line is the scale factor, or some text that is none.
InitInputs ==
    /\ call = NoInputCall
    /\ ipc = "idle"
    /\ log = <<>>
    /\ \E scale_line \in {"1.0", "4", "Direct"}, nl \in {TRUE} :
          disk = [n \in DiskNames |->
                     IF n = PoscarUnitcell
                     THEN TextFile(<<"Si2", scale_line, "0.0 0.5 0.5",
                                     "0.5 0.0 0.5", "Si">>, nl)
                     ELSE NoFile]
    /\ IdleFigshare
    /\ IdleKappa
    /\ IdleHk
    /\ IdleJdos

\* prepare_jdos(...), lines 46-73: the command is built.
CallPrepareJdos ==
    /\ ipc = "idle"
    /\ \E a \in JdosArgs :
          call' = [op |-> "prepare_jdos", args |-> a, cmd |-> prepare_jdos_cmd(a),
                   outcome |-> "-", exc |-> "none", pre |-> disk]
    /\ ipc' = "print"
    /\ log' = <<>>
    /\ UNCHANGED disk
    /\ UNCHANGED nonInputVars

\* prepare_gruneisen_FC3(...), lines 133-164: the command is built; a band
\* calculation first reads the structure file (line 145), which fails when
\* there is none.
CallPrepareGruneisenFC3 ==
    /\ ipc = "idle"
    /\ \E a \in Fc3Args :
          IF a.band_calc /\ ~disk[a.poscar].exists
          THEN /\ call' = [op |-> "prepare_gruneisen_FC3", args |-> a,
                           cmd |-> <<>>, outcome |-> "raise",
                           exc |-> "FileNotFoundError", pre |-> disk]
               /\ ipc' = "idle"
          ELSE /\ call' = [op |-> "prepare_gruneisen_FC3", args |-> a,
                           cmd |-> prepare_gruneisen_FC3_cmd(a),
                           outcome |-> "-", exc |-> "none", pre |-> disk]
               /\ ipc' = "print"
    /\ log' = <<>>
    /\ UNCHANGED disk
    /\ UNCHANGED nonInputVars

\* The print followed by the invocation whatever run is.
StepPrintAlwaysRun ==
    /\ ipc = "print"
    /\ log' = Append(log, [ev |-> "print", cmd |-> call.cmd])
    /\ ipc' = "run"
    /\ UNCHANGED call
    /\ UNCHANGED disk
    /\ UNCHANGED nonInputVars

\* print(phono3py_cmd), lines 75, 160 and 165; then the test of run.
StepPrint ==
    /\ ipc = "print"
    /\ log' = Append(log, [ev |-> "print", cmd |-> call.cmd])
    /\ IF call.args.run
       THEN /\ ipc' = "run"
            /\ UNCHANGED call
       ELSE /\ ipc' = "idle"
            /\ call' = [call EXCEPT !.outcome = "return"]
    /\ UNCHANGED disk
    /\ UNCHANGED nonInputVars

\* subprocess.call(phono3py_cmd, shell=True), lines 78 and 167.
StepRun ==
    /\ ipc = "run"
    /\ log' = Append(log, [ev |-> "subprocess.call", cmd |-> call.cmd])
    /\ ipc' = "idle"
    /\ call' = [call EXCEPT !.outcome = "return"]
    /\ UNCHANGED disk
    /\ UNCHANGED nonInputVars

\* prepare_gruneisen_quasiharmonic(orig_poscar, scale), lines 84-101.
CallQuasiharmonic ==
    /\ ipc = "idle"
    /\ \E orig_poscar \in DiskNames, scale \in Scales :
          /\ InScaleRange(disk, orig_poscar, scale)
          /\ LET r == prepare_gruneisen_quasiharmonic(disk, orig_poscar, scale)
             IN /\ call' = [op |-> "prepare_gruneisen_quasiharmonic",
                            args |-> [orig_poscar |-> orig_poscar,
                                      scale |-> scale],
                            cmd |-> <<>>, outcome |-> r.outcome,
                            exc |-> r.exc, pre |-> disk]
                /\ disk' = r.disk
    /\ log' = <<>>
    /\ UNCHANGED ipc
    /\ UNCHANGED nonInputVars

NextInputs ==
    \/ CallPrepareJdos
    \/ CallPrepareGruneisenFC3
    \/ StepPrint
    \/ StepRun
    \/ CallQuasiharmonic

SpecInputs == InitInputs /\ [][NextInputs]_vars

(***************************************************************************)
(* The command strings against their options.                              *)
(***************************************************************************)
\* The option opt occurs in cmd.
HasOption(cmd, opt) == \E i \in 1..Len(cmd) : cmd[i] = opt
\* The number of double quotes among the first n pieces of cmd.
QuotesBefore(cmd, n) == Cardinality({i \in 1..n : cmd[i] = Q})
\* The option opt occurs once, and its value, the texts of vals separated
\* by blanks, follows it (a blank may come in between) inside one pair of
\* double quotes: an opening quote, the value, the closing quote.
Enclosed(cmd, opt, vals) ==
    /\ Cardinality({i \in 1..Len(cmd) : cmd[i] = opt}) = 1
    /\ LET i == CHOOSE k \in 1..Len(cmd) : cmd[k] = opt
           open == IF i < Len(cmd) /\ cmd[i + 1] = SP THEN i + 2 ELSE i + 1
           v == join_str(vals)
       IN /\ open + Len(v) + 1 <= Len(cmd)
          /\ cmd[open] = Q
          /\ QuotesBefore(cmd, open - 1) % 2 = 0
          /\ SubSeq(cmd, open + 1, open + Len(v)) = v
          /\ cmd[open + Len(v) + 1] = Q

\* C15: the command of prepare_jdos is well formed: --dim, --mesh, --gp,
\* --ts and --pa each have their value inside one matched pair of double
\* quotes, the number of double quotes is even, --ts is there exactly when
\* temperatures is not None, --pa exactly when pa is not None, and --gp
\* lists the distinct irreducible grid points in ascending order.
C15_JdosCommandWellFormed ==
    call.op = "prepare_jdos" =>
        LET a == call.args
            cmd == call.cmd
        IN /\ Enclosed(cmd, "--dim=", a.dim)
           /\ Enclosed(cmd, "--mesh=", a.mesh)
           /\ Enclosed(cmd, "--gp=", unique(a.mapping))
           /\ HasOption(cmd, "--ts=") <=> (a.temperatures # None)
           /\ HasOption(cmd, "--pa=") <=> (a.pa # None)
           /\ a.temperatures # None => Enclosed(cmd, "--ts=", a.temperatures.val)
           /\ a.pa # None => Enclosed(cmd, "--pa=", a.pa.val)
           /\ QuotesBefore(cmd, Len(cmd)) % 2 = 0

\* C15, the part the code satisfies: all of it when temperatures is None,
\* and, with temperatures, everything but the quotes around the value of
\* --ts (and the pairing of the quotes that follow).
C15_WithoutTemperatures ==
    call.op = "prepare_jdos" =>
        LET a == call.args
            cmd == call.cmd
        IN /\ Enclosed(cmd, "--dim=", a.dim)
           /\ Enclosed(cmd, "--mesh=", a.mesh)
           /\ Enclosed(cmd, "--gp=", unique(a.mapping))
           /\ HasOption(cmd, "--ts=") <=> (a.temperatures # None)
           /\ HasOption(cmd, "--pa=") <=> (a.pa # None)
           /\ (a.temperatures = None /\ a.pa # None) =>
                 Enclosed(cmd, "--pa=", a.pa.val)
           /\ QuotesBefore(cmd, Len(cmd)) % 2 = 0

\* The piece poscar follows "-c" and a blank.
HasPoscar(cmd, poscar) ==
    \E i \in 1..(Len(cmd) - 2) :
        cmd[i] = "-c" /\ cmd[i + 1] = SP /\ cmd[i + 2] = poscar

\* C16: the command of prepare_gruneisen_FC3 has --band and no --mesh in a
\* band calculation, --mesh with the given mesh and no --band otherwise,
\* --nac exactly when nac is true, and always --fc3, --fc2, --dim with the
\* supercell dimensions, the poscar path and --gruneisen.
C16_Fc3CommandOptions ==
    (call.op = "prepare_gruneisen_FC3" /\ call.outcome # "raise") =>
        LET a == call.args
            cmd == call.cmd
        IN /\ a.band_calc =>
                 /\ HasOption(cmd, "--band=")
                 /\ ~HasOption(cmd, "--mesh=")
           /\ ~a.band_calc =>
                 /\ Enclosed(cmd, "--mesh=", a.mesh)
                 /\ ~HasOption(cmd, "--band=")
           /\ HasOption(cmd, "--nac") <=> a.nac
           /\ HasOption(cmd, "--fc3")
           /\ HasOption(cmd, "--fc2")
           /\ Enclosed(cmd, "--dim=", a.dim)
           /\ HasPoscar(cmd, a.poscar)
           /\ HasOption(cmd, "--gruneisen")

\* A band calculation with --nac has printed its command, which lists the
\* k-points of the path.
C16_Witness ==
    /\ call.op = "prepare_gruneisen_FC3"
    /\ call.args.band_calc
    /\ call.args.nac
    /\ Len(log) >= 1
    /\ log[1].ev = "print"
    /\ HasOption(log[1].cmd, "--band=")
    /\ HasOption(log[1].cmd, "0.5")

\* The events of a completed builder call that printed cmd and, if ran,
\* invoked it.
PrintEvent(cmd) == [ev |-> "print", cmd |-> cmd]
RunEvent(cmd) == [ev |-> "subprocess.call", cmd |-> cmd]

\* C17: prepare_jdos and prepare_gruneisen_FC3 print the command, then, when
\* run is true, invoke subprocess.call once with the string printed; when
\* run is false they invoke nothing.  Nothing is invoked before the print.
C17_PrintThenRunOnce ==
    call.op \in {"prepare_jdos", "prepare_gruneisen_FC3"} =>
        /\ ipc = "print" => log = <<>>
        /\ ipc = "run" => (call.args.run /\ log = <<PrintEvent(call.cmd)>>)
        /\ (ipc = "idle" /\ call.outcome = "return") =>
              log = IF call.args.run
                    THEN <<PrintEvent(call.cmd), RunEvent(call.cmd)>>
                    ELSE <<PrintEvent(call.cmd)>>
        /\ \A i \in 1..Len(log) :
              log[i].ev = "subprocess.call" =>
                 /\ call.args.run
                 /\ i = 2
                 /\ log[1] = PrintEvent(log[i].cmd)

\* prepare_jdos with run=True has returned after printing and invoking its
\* command, which carries --ts and --pa.
C17_Witness ==
    /\ call.op = "prepare_jdos"
    /\ call.args.run
    /\ call.args.temperatures # None
    /\ call.args.pa # None
    /\ ipc = "idle"
    /\ call.outcome = "return"
    /\ Len(log) = 2
    /\ log[2] = RunEvent(prepare_jdos_cmd(call.args))

(***************************************************************************)
(* prepare_gruneisen_quasiharmonic against what it is to write.            *)
(***************************************************************************)
\* lines holds the lines of orig with the second one replaced by the text
\* of the float q (in quarters).
ScaledCopy(lines, orig, q) ==
    /\ Len(lines) = Len(orig)
    /\ float(lines[2]) = q
    /\ \A i \in 1..Len(orig) : i # 2 => lines[i] = orig[i]

QhReturned ==
    /\ call.op = "prepare_gruneisen_quasiharmonic"
    /\ call.outcome = "return"

\* C18 as stated: POSCAR-plus and POSCAR-minus are the original with the
\* second line multiplied, respectively divided, by scale (both taken from
\* the original value), all other lines the same in the same order, and the
\* original file is not modified.
C18_ScaledCopiesOriginalKept ==
    QhReturned =>
        LET orig == call.pre[call.args.orig_poscar]
            q == float(orig.lines[2])
        IN /\ ScaledCopy(disk[PoscarPlus].lines, orig.lines, q * call.args.scale)
           /\ ScaledCopy(disk[PoscarMinus].lines, orig.lines, q \div call.args.scale)
           /\ float(disk[PoscarMinus].lines[2]) * call.args.scale = q
           /\ disk[call.args.orig_poscar] = orig

\* C18 as amended: the same, the original file being left as it was
\* provided it is neither POSCAR-plus nor POSCAR-minus of the working
\* directory; no other file is touched, and a call that raises writes
\* nothing.
C18_ScaledCopiesOtherFilesKept ==
    /\ QhReturned =>
          LET orig == call.pre[call.args.orig_poscar]
              q == float(orig.lines[2])
          IN /\ ScaledCopy(disk[PoscarPlus].lines, orig.lines, q * call.args.scale)
             /\ ScaledCopy(disk[PoscarMinus].lines, orig.lines, q \div call.args.scale)
             /\ float(disk[PoscarMinus].lines[2]) * call.args.scale = q
             /\ call.args.orig_poscar \notin {PoscarPlus, PoscarMinus} =>
                   disk[call.args.orig_poscar] = orig
             /\ \A n \in DiskNames \ {PoscarPlus, PoscarMinus} :
                   disk[n] = call.pre[n]
    /\ (call.op = "prepare_gruneisen_quasiharmonic" /\ call.outcome = "raise") =>
          disk = call.pre

\* The structure file with scale factor "4" was dilated and constricted by
\* 2: POSCAR-plus holds 8.0, POSCAR-minus 2.0, and the structure file still
\* holds "4".
C18_Witness ==
    /\ QhReturned
    /\ call.args.orig_poscar = PoscarUnitcell
    /\ call.args.scale = 2
    /\ call.pre[PoscarUnitcell].lines[2] = "4"
    /\ disk[PoscarUnitcell].lines[2] = "4"
    /\ disk[PoscarPlus].lines[2] = "8.0"
    /\ disk[PoscarMinus].lines[2] = "2.0"
    /\ disk[PoscarPlus].lines[5] = "Si"
====
